---- MODULE Spec2Model ----
(***************************************************************************)
(* Verification model of the Bihar ul Anwar RAG system: the query-time     *)
(* filter/ranker (database.py, processing.py), the /query and              *)
(* /process-volume handlers ("old method/main.py"), the store write        *)
(* discipline (database.py) and the batch client's retry loop              *)
(* ("old method/process_bihar_volumes.py").                                *)
(*                                                                         *)
(* Texts are sequences of word tokens joined by single spaces; TokLen      *)
(* gives each token's number of code points, so a text's length is the     *)
(* length of the joined string.  No token of the vocabulary contains       *)
(* another one as a substring, so Python's substring test `p in text` is   *)
(* containment of the phrase's tokens as a contiguous run.                 *)
(***************************************************************************)
EXTENDS Integers, Sequences, FiniteSets, TLC

\* ------------------------------------------------------------------ bounds
MaxRaw == 3          \* longest raw result list drawn for one query
VecLen == 2          \* components kept of an embedding vector
MaxRuns == 3         \* ingestion runs in one behaviour
MaxRetries == 2      \* largest max_retries handed to the retry loop

None == "None"       \* Python None / SQL NULL

\* ------------------------------------------------------------------ texts
\* len() of one token (code points); AR_* stand for the Arabic words
\* qala (3 letters), 'an (2), haddathana (5), rawa (3), 'ilm (3).
TokLen(t) ==
  CASE t = "filler100" -> 100
    [] t = "filler40" -> 40
    [] t \in {"Table", "table", "index", "bihar", "light", "AR_haddathana"} -> 5
    [] t \in {"of", "al", "is", "AR_an"} -> 2
    [] t \in {"Contents", "contents", "narrated", "creation"} -> 8
    [] t \in {"overall", "Chapter", "chapter"} -> 7
    [] t \in {"al-anwaar", "knowledge"} -> 9
    [] t \in {"Imam", "imam", "Said", "said", "asws", "what", "AR_hadith"} -> 4
    [] t \in {"AR_qala", "AR_rawa", "AR_ilm", "the"} -> 3
    [] t \in {"hadith", "anwaar", "volume"} -> 6
    [] t \in {"\n", "1", "3", "5", "7"} -> 1
    [] t = "12" -> 2
    [] OTHER -> 5

Whitespace == {"\n"}
Digits == {"1", "3", "5", "7", "12"}

RECURSIVE SumLen(_)
SumLen(text) ==
  IF text = <<>> THEN 0 ELSE TokLen(Head(text)) + SumLen(Tail(text))

\* len(text)
TextLen(text) == IF text = <<>> THEN 0 ELSE SumLen(text) + Len(text) - 1

\* str.lower() of one token
LowerTok(t) ==
  CASE t = "Table" -> "table"
    [] t = "Contents" -> "contents"
    [] t = "Chapter" -> "chapter"
    [] t = "Imam" -> "imam"
    [] t = "Said" -> "said"
    [] OTHER -> t

\* str.lower()
Lower(text) == [i \in DOMAIN text |-> LowerTok(text[i])]

RECURSIVE LStrip(_)
LStrip(text) ==
  IF text # <<>> /\ Head(text) \in Whitespace THEN LStrip(Tail(text)) ELSE text

RECURSIVE RStrip(_)
RStrip(text) ==
  IF text # <<>> /\ text[Len(text)] \in Whitespace
    THEN RStrip(SubSeq(text, 1, Len(text) - 1))
    ELSE text

\* str.strip()
Strip(text) == RStrip(LStrip(text))

\* `phrase in text`
Contains(text, phrase) ==
  \E i \in 1..(Len(text) - Len(phrase) + 1) :
    SubSeq(text, i, i + Len(phrase) - 1) = phrase

\* text.startswith(phrase)
StartsWith(text, phrase) ==
  Len(text) >= Len(phrase) /\ SubSeq(text, 1, Len(phrase)) = phrase

\* text[i..j] holds no line break, so the regex `.*` can span it
NoBreak(text, i, j) == \A k \in i..j : text[k] # "\n"

\* ------------------------------------------------------------------ store rows
\* One row of bihar_chunks as the similarity search returns it; similarity is
\* in hundredths, content_priority in tenths, relevance_score in tenths
\* (0 = key not set).  chunk_index is the stored ordinal of the row.
MkRow(id, vol, chap, had, ar, en, full, idx, sim) ==
  [id |-> id, volume_number |-> vol, chapter_name |-> chap, hadith_number |-> had,
   arabic_text |-> ar, english_text |-> en, full_text |-> full, chunk_index |-> idx,
   metadata |-> [volume |-> vol, chapter |-> chap, hadith_number |-> had],
   similarity |-> sim, content_priority |-> 0, relevance_score |-> 0]

Rows ==
  << MkRow(1, 7, None, None, <<>>,
           <<"Table", "of", "Contents", "filler100">>,
           <<"Table", "of", "Contents", "filler100">>, 0, 95),
     MkRow(2, 7, None, None, <<>>,
           <<"filler100", "Imam", "Said", "asws", "filler40">>,
           <<"filler100", "Imam", "Said", "asws", "filler40">>, 5, 50),
     MkRow(3, 7, None, None, <<>>,
           <<"filler100", "light", "filler40">>,
           <<"filler100", "light", "filler40">>, 7, 90),
     MkRow(4, 7, None, None, <<>>,
           <<"filler40", "light", "filler100">>,
           <<"filler40", "light", "filler100">>, 2, 90),
     MkRow(5, 7, "5", "12", <<>>,
           <<"Chapter", "5", "hadith", "12", "filler40", "filler40">>,
           <<"\n", "Chapter", "5", "hadith", "12", "filler40", "filler40">>, 1, 80),
     MkRow(6, 7, None, None, <<"AR_qala", "AR_text">>,
           <<"filler100", "filler40">>,
           <<"filler100", "filler40", "\n", "AR_qala", "AR_text">>, 3, 50),
     MkRow(7, 7, None, "3", <<"AR_hadith", "3">>,
           <<"filler100", "filler40">>,
           <<"filler100", "filler40", "\n", "AR_hadith", "3">>, 4, 40),
     MkRow(8, 7, None, None, <<>>,
           <<"overall", "index", "filler100">>,
           <<"overall", "index", "filler100">>, 6, 60),
     MkRow(9, 8, None, None, <<>>,
           <<"table", "of", "contents", "filler100", "filler100">>,
           <<"table", "of", "contents", "filler100", "filler100">>, 8, 70),
     MkRow(10, 8, None, None, <<>>,
           <<"overall", "filler100", "filler40", "index">>,
           <<"overall", "filler100", "filler40", "index">>, 9, 45),
     MkRow(11, 8, None, None, <<>>,
           <<"filler100", "knowledge", "filler40">>,
           <<"filler100", "knowledge", "filler40">>, 10, 35) >>

RowIds == DOMAIN Rows

\* Further rows of narrated content, one per similarity 31, 32, ...: enough
\* of them make a result list longer than the assembler's cut.
FamilyRow(i) ==
  MkRow(100 + i, 7, None, None, <<>>,
        <<"filler100", "narrated", "filler40">>,
        <<"filler100", "narrated", "filler40">>, 20 + i, 30 + i)

\* ------------------------------------------------------------------ similarity search (SQL)
SimilarityFloor == 30      \* 1 - distance > 0.3
MinEnglishLen == 100       \* LENGTH(COALESCE(english_text, full_text, '')) > 100

\* The WHERE clause of the vector query for one row.
SqlWhere(row, volume_filter) ==
  /\ TextLen(row.english_text) > MinEnglishLen
  /\ (volume_filter # 0 => row.volume_number = volume_filter)
  /\ row.similarity > SimilarityFloor

\* Every list the vector query can return for some store content: distinct
\* rows passing the WHERE clause, nearest first (ORDER BY distance).
RawIdLists ==
  { s \in UNION { [1..n -> RowIds] : n \in 0..MaxRaw } :
      /\ \A i, j \in DOMAIN s : i < j =>
            /\ s[i] # s[j]
            /\ Rows[s[i]].similarity >= Rows[s[j]].similarity
      /\ \A i \in DOMAIN s : SqlWhere(Rows[s[i]], 0) }

\* ------------------------------------------------------------------ relaxed ranker
Min(a, b) == IF a < b THEN a ELSE b

\* tuple comparison of two (priority, similarity) sort keys
KeyGt(a, b) == a[1] > b[1] \/ (a[1] = b[1] /\ a[2] > b[2])

\* list.sort(key=Key, reverse=True): descending, equal keys keep their order
\* (key[i] is the sort key of seq[i])
StableSortDesc(seq, key) ==
  LET n == Len(seq)
      pos(i) == 1 + Cardinality({ j \in 1..n : KeyGt(key[j], key[i]) })
                  + Cardinality({ j \in 1..(i - 1) : key[j] = key[i] })
  IN [p \in 1..n |-> seq[CHOOSE i \in 1..n : pos(i) = p]]

ShouldExcludeRelaxed(result) ==
  LET full_text == Strip(Lower(result.full_text))
  IN \/ (Contains(full_text, <<"table", "of", "contents">>) /\ TextLen(full_text) < 200)
     \/ (StartsWith(full_text, <<"overall">>) /\ Contains(full_text, <<"index">>)
           /\ TextLen(full_text) < 150)
     \/ (TextLen(full_text) < 80 /\ Contains(full_text, <<"bihar", "al-anwaar">>))
     \/ (StartsWith(full_text, <<"chapter">>) /\ TextLen(full_text) < 120)

HasHadithContentRelaxed(result) ==
  LET english_text == Lower(result.english_text)
  IN \/ Contains(english_text, <<"said">>)
     \/ Contains(english_text, <<"narrated">>)
     \/ Contains(english_text, <<"reported">>)
     \/ Contains(english_text, <<"tradition">>)
     \/ Contains(english_text, <<"hadith">>)
     \/ result.hadith_number # None
     \/ Contains(result.arabic_text, <<"AR_qala">>)
     \/ Contains(result.arabic_text, <<"AR_an">>)

\* mutant: a candidate with the priority signal skips the exclusion test
FilterRelaxed_SkipPrioritised(raw_results) ==
  LET marked == [i \in DOMAIN raw_results |->
                   [raw_results[i] EXCEPT !.content_priority =
                       IF HasHadithContentRelaxed(raw_results[i]) THEN 10 ELSE 5]]
  IN SelectSeq(marked, LAMBDA r :
       ~ShouldExcludeRelaxed(r) \/ HasHadithContentRelaxed(r))

\* the loop over raw_results: survivors, each with its content_priority
FilterRelaxed(raw_results) ==
  LET marked == [i \in DOMAIN raw_results |->
                   [raw_results[i] EXCEPT !.content_priority =
                       IF HasHadithContentRelaxed(raw_results[i]) THEN 10 ELSE 5]]
  IN SelectSeq(marked, LAMBDA r : ~ShouldExcludeRelaxed(r))

KeyRelaxed(x) == <<x.content_priority, x.similarity>>

Reverse(seq) == [i \in DOMAIN seq |-> seq[Len(seq) + 1 - i]]

\* mutant: the priority is left out of the sort key
KeySimilarityOnly(x) == <<0, x.similarity>>
SortRelaxed_BySimilarity(filtered_results) ==
  StableSortDesc(filtered_results,
                 [i \in DOMAIN filtered_results |-> KeySimilarityOnly(filtered_results[i])])

\* mutant: sort ascending, then reverse the list (equal keys swap places)
SortRelaxed_TiesReversed(filtered_results) ==
  StableSortDesc(Reverse(filtered_results),
                 [i \in DOMAIN filtered_results |->
                    KeyRelaxed(Reverse(filtered_results)[i])])

SortRelaxed(filtered_results) ==
  StableSortDesc(filtered_results,
                 [i \in DOMAIN filtered_results |-> KeyRelaxed(filtered_results[i])])

\* mutant: the slice keeps one entry too many
TakeTopK_OffByOne(sorted, k) == SubSeq(sorted, 1, Min(k + 1, Len(sorted)))

\* filtered_results[:top_k]
TakeTopK(sorted, k) == SubSeq(sorted, 1, Min(k, Len(sorted)))

\* the ranking stage of search_similar_chunks_relaxed: loop, sort, slice
RankRelaxed(raw_results, k) == TakeTopK(SortRelaxed(FilterRelaxed(raw_results)), k)

\* ------------------------------------------------------------------ filter_relevant_chunks
\* re.match of one of exclude_patterns on the stripped lower-cased full text
MatchesExcludePattern(full_text) ==
  \/ full_text = <<"table", "of", "contents">>
  \/ /\ Len(full_text) >= 2
     /\ full_text[1] = "overall"
     /\ full_text[Len(full_text)] = "index"
     /\ NoBreak(full_text, 1, Len(full_text))
  \/ /\ Len(full_text) = 4
     /\ SubSeq(full_text, 1, 3) = <<"bihar", "al-anwaar", "volume">>
     /\ full_text[4] \in Digits

\* any(re.search(p, text) for p in include_patterns)
MatchesIncludePattern(text) ==
  \/ \E i, j \in DOMAIN text :
       i < j /\ text[i] = "said" /\ text[j] = "asws" /\ NoBreak(text, i, j)
  \/ \E w \in {"narrated", "reported", "tradition", "hadith", "AR_qala", "AR_an",
               "AR_haddathana", "AR_rawa", "knowledge", "AR_ilm"} :
       Contains(text, <<w>>)
  \/ \E i \in 1..(Len(text) - 1) : text[i] = "chapter" /\ text[i + 1] \in Digits

\* the \w+ runs of one token
WordsOfTok(t) ==
  CASE t = "al-anwaar" -> <<"al", "anwaar">>
    [] t \in Whitespace -> <<>>
    [] OTHER -> <<t>>

RECURSIVE WordsOf(_)
WordsOf(text) ==
  IF text = <<>> THEN <<>> ELSE WordsOfTok(Head(text)) \o WordsOf(Tail(text))

\* re.findall(r'\b\w{3,}\b', text)
LongWords(text) == SelectSeq(WordsOf(text), LAMBDA w : TokLen(w) >= 3)

SeqToSet(seq) == { seq[i] : i \in DOMAIN seq }

IsRelevantToQuery(chunk, query) ==
  LET query_lower == Lower(query)
      full_text == Lower(chunk.full_text)
      english_text == Lower(chunk.english_text)
      hits == { i \in 1..(Len(query_lower) - 1) :
                  query_lower[i] = "chapter" /\ query_lower[i + 1] \in Digits }
      first == CHOOSE i \in hits : \A j \in hits : i <= j
      requested_chapter == query_lower[first + 1]
      chapter_hit ==
        /\ Contains(query_lower, <<"chapter">>)
        /\ hits # {}
        /\ \/ chunk.chapter_name = requested_chapter
           \/ Contains(full_text, <<"chapter", requested_chapter>>)
      knowledge_hit ==
        /\ Contains(query_lower, <<"knowledge">>)
        /\ \E term \in {"knowledge", "learn", "scholar", "AR_ilm", "AR_talab", "AR_alim"} :
             Contains(full_text, <<term>>) \/ Contains(english_text, <<term>>)
      query_terms == LongWords(query_lower)
      text_words == SeqToSet(LongWords(full_text))
      overlap == Cardinality(SeqToSet(query_terms) \cap text_words)
  IN \/ chapter_hit
     \/ knowledge_hit
     \/ IF query_terms # <<>>
          THEN overlap * 100 > 15 * Len(query_terms)
          ELSE TRUE

ShouldExcludeFilter(chunk) ==
  LET full_text == Strip(Lower(chunk.full_text))
  IN \/ MatchesExcludePattern(full_text)
     \/ (TextLen(full_text) < 50 /\ ~MatchesIncludePattern(full_text))

HasHadithContentFilter(chunk) == MatchesIncludePattern(Lower(chunk.english_text))

KeyFilter(x) == <<x.relevance_score, x.similarity>>

\* mutant: sort ascending, then reverse the list (equal keys swap places)
SortFilter_TiesReversed(filtered_chunks) ==
  StableSortDesc(Reverse(filtered_chunks),
                 [i \in DOMAIN filtered_chunks |->
                    KeyFilter(Reverse(filtered_chunks)[i])])

SortFilter(filtered_chunks) ==
  StableSortDesc(filtered_chunks,
                 [i \in DOMAIN filtered_chunks |-> KeyFilter(filtered_chunks[i])])

FilterLimit == 7     \* filtered_chunks[:7]

\* mutant: the filter also stamps the candidate's item reference
FilterRelevantChunks_WritesReference(chunks, query) ==
  LET marked == [i \in DOMAIN chunks |->
                   [chunks[i] EXCEPT !.relevance_score =
                                       IF HasHadithContentFilter(chunks[i]) THEN 10 ELSE 7,
                                     !.hadith_number =
                                       IF HasHadithContentFilter(chunks[i]) THEN "1" ELSE @]]
      kept == SelectSeq(marked, LAMBDA c :
                /\ ~ShouldExcludeFilter(c)
                /\ (HasHadithContentFilter(c) \/ IsRelevantToQuery(c, query)))
      sorted == SortFilter(kept)
  IN SubSeq(sorted, 1, Min(FilterLimit, Len(sorted)))

FilterRelevantChunks(chunks, query) ==
  LET marked == [i \in DOMAIN chunks |->
                   [chunks[i] EXCEPT !.relevance_score =
                       IF HasHadithContentFilter(chunks[i]) THEN 10 ELSE 7]]
      kept == SelectSeq(marked, LAMBDA c :
                /\ ~ShouldExcludeFilter(c)
                /\ (HasHadithContentFilter(c) \/ IsRelevantToQuery(c, query)))
      sorted == SortFilter(kept)
  IN SubSeq(sorted, 1, Min(FilterLimit, Len(sorted)))

\* ------------------------------------------------------------------ state
VARIABLES
  db_conn,            \* database.db_conn: "none" | "open"
  qpc,                \* position of the /query handler
  request,            \* QueryRequest: query, top_k, volume_filter
  query_embedding,    \* result of generate_query_embedding
  raw_results,        \* rows fetched by the vector query
  filtered_results,   \* survivors of the exclusion loop, before the sort
  chunks,             \* result of search_similar_chunks_relaxed
  filtered_chunks,    \* result of filter_relevant_chunks inside the assembler
  gen_calls,          \* calls of CHAT_MODEL.generate_content
  assembled,          \* context_parts and reference_list of generate_answer_with_context
  returned,           \* functions of this request that have returned normally
  response,           \* HadithResponse, or the HTTP 500 of the handler
  rerun_chunks,       \* the ranking stage applied to its own output
  rerun_filtered,     \* filter_relevant_chunks applied to its own output
  store,              \* table bihar_chunks: committed rows
  processed_volumes,  \* table processed_volumes: committed rows
  ipc,                \* position of the /process-volume handler
  irun,               \* number of /process-volume requests received so far
  ivolume,            \* request.volume_number of the current run
  ichunks,            \* chunks returned by process_pdf_text
  iresponse,          \* what the handler returned for the latest run
  completed,          \* history: <<run, volume, stored>> of every run that returned success
  cpc,                \* position of process_volume_with_retry
  max_retries,        \* its max_retries argument
  attempt,            \* its loop variable
  outcomes,           \* history: what each requests.post of the call ended in
  cresult,            \* what process_volume_with_retry returned
  epc,                \* position of generate_embeddings
  texts,              \* its texts argument
  embeddings,         \* its embeddings list
  embed_calls,        \* history: positions of the texts handed to genai.embed_content
  embed_results,      \* history: how each of those calls ended
  ppc,                \* position of process_pdf_text
  pcall,              \* its volume_num, the file's size class, the splitter's configuration
  pages,              \* what reader.pages[n].extract_text() gives for each page
  batch_start,        \* loop variable of the page-batch loop
  all_chunks,         \* its all_chunks list
  batch_log,          \* history: how each page batch ended
  lpc,                \* position of split_arabic_english
  ltext,              \* its text argument
  lresult,            \* the pair it returned
  xpc,                \* position of the reference extraction
  xtext,              \* the text handed to the extractors
  xmeta,              \* result of extract_hadith_metadata
  xadvanced,          \* result of MetadataExtractor.extract_metadata_advanced
  tpc,                \* position of the citation building
  tchunk,             \* the candidate a citation is built for
  tref,               \* ref of generate_answer_with_context in processing.py
  tsource,            \* the "[Source i]" header of generate_answer_with_context in main.py
  fpc,                \* position of the metadata repair
  ftable,             \* bihar_chunks of one volume: committed rows
  fview,              \* the same rows as the repair's open transaction sees them
  fwritten,           \* history: the metadata each row was inserted with
  fqueue,             \* ids the repair has fetched and not yet processed
  fextracted,         \* extracted, for the chunk at the head of fqueue
  \* process_volume_with_retry against the /process-volume handler
  wpc,                \* where the client is: "idle", "loop", "waiting", "returned"
  wmax,               \* max_retries of the call
  wattempt,           \* the loop variable attempt
  wrequests,          \* the requests the server was sent, each "queued", "running",
                      \* "done" or "failed"
  wrows,              \* rows of bihar_chunks inserted for the volume
  wresult,            \* what the call returned: "none", "success", "failure"
  \* the global connection of database.py
  nconn,              \* db_conn: "none", "ready", "in_transaction", "aborted", "closed"
  nlog                \* history: the store operations made and how each ended

qvars == <<qpc, request, query_embedding, raw_results, filtered_results, chunks,
           filtered_chunks, gen_calls, assembled, returned, response>>

rvars == <<rerun_chunks, rerun_filtered>>

ivars == <<store, processed_volumes, ipc, irun, ivolume, ichunks, iresponse, completed>>

cvars == <<cpc, max_retries, attempt, outcomes, cresult>>

evars == <<epc, texts, embeddings, embed_calls, embed_results>>

svars == <<ppc, pcall, pages, batch_start, all_chunks, batch_log>>

lvars == <<lpc, ltext, lresult>>

xvars == <<xpc, xtext, xmeta, xadvanced>>

tvars == <<tpc, tchunk, tref, tsource>>

\* the operations modelled on their own
fvars == <<fpc, ftable, fview, fwritten, fqueue, fextracted>>

wvars == <<wpc, wmax, wattempt, wrequests, wrows, wresult>>

nvars == <<nconn, nlog>>

ovars == <<tvars, fvars, wvars, nvars>>

\* the text functions and the operations modelled on their own
pvars == <<evars, svars, lvars, xvars, ovars>>

\* everything the /query handler never touches
nqvars == <<rerun_chunks, rerun_filtered, ivars, cvars, pvars>>

vars == <<db_conn, qvars, rvars, ivars, cvars, pvars>>

\* ------------------------------------------------------------------ /query
Queries ==
  { <<"what", "is", "knowledge">>, <<"Chapter", "5">>, <<"creation", "of", "light">> }

TopKs == {1, 2}
VolumeFilters == {0, 7}        \* 0: no volume_filter

ZeroVector == [i \in 1..VecLen |-> 0]      \* [0.0] * 768
Vectors == [1..VecLen -> {0, 1}]

NoResponse == [status |-> 0, success |-> FALSE, answer |-> "", references |-> <<>>,
               total_sources |-> 0]

\* ------------------------------------------------------------------ citations
\* The parts of a citation, in order: "Bihar ul Anwar, Volume 7, Chapter 5"
\* is <<"Bihar ul Anwar", "Volume", "7", "Chapter", "5">>.

\* str(volume) inside an f-string; str(None) is the text None stands for
\* and a string is printed as it is
Str(v) ==
  CASE v = 7 -> "7"
    [] v = 8 -> "8"

\* f"Volume {chunk.get('volume_number', 'Unknown')}"
VolumePart(chunk) ==
  <<"Volume", IF "volume_number" \in DOMAIN chunk THEN Str(chunk.volume_number) ELSE "Unknown">>

\* dict.get(key, default)
Get(d, key, default) == IF key \in DOMAIN d THEN d[key] ELSE default

\* bool(value) of None or a string
Truthy(v) == v # None /\ v # ""

\* if value and value != 'Unknown': ref += f", {label} {value}"
CitePart(label, value) ==
  IF Truthy(value) /\ value # "Unknown" THEN <<label, value>> ELSE <<>>

\* ref of generate_answer_with_context, src/processing.py
Citation(chunk) ==
  LET metadata == Get(chunk, "metadata", <<>>)
  IN <<"Bihar ul Anwar">> \o VolumePart(chunk)
       \o CitePart("Chapter", Get(metadata, "chapter", "Unknown"))
       \o CitePart("Hadith", Get(metadata, "hadith_number", "Unknown"))

\* if value != 'Unknown': context_part += f", {label} {value}", src/main.py
SourcePart(label, value) ==
  IF value # "Unknown" THEN <<label, value>> ELSE <<>>

\* the header of a "[Source i]" block, src/main.py
SourceHeader(chunk) ==
  LET metadata == Get(chunk, "metadata", <<>>)
  IN <<"Bihar ul Anwar">> \o VolumePart(chunk)
       \o SourcePart("Chapter", Get(metadata, "chapter", "Unknown"))
       \o SourcePart("Hadith", Get(metadata, "hadith_number", "Unknown"))

ExcerptLen == 300

\* text[:n]; "~" stands for the part of a word the cut leaves
Excerpt(text, n) ==
  IF TextLen(text) <= n THEN text
  ELSE LET whole == {k \in 0..Len(text) : TextLen(SubSeq(text, 1, k)) < n}
           k == CHOOSE x \in whole : \A y \in whole : y <= x
       IN SubSeq(text, 1, k) \o <<"~">>

\* context_part of candidate i: its number, its citation and its excerpts
ContextPart(i, chunk, include_arabic) ==
  [excerpt |-> i,
   ref |-> Citation(chunk),
   arabic |-> IF include_arabic /\ chunk.arabic_text # <<>>
                THEN Excerpt(chunk.arabic_text, ExcerptLen) ELSE <<>>,
   english |-> IF chunk.english_text # <<>>
                 THEN Excerpt(chunk.english_text, ExcerptLen) ELSE <<>>]

\* mutant: the blocks are concatenated last candidate first
Assemble_LastFirst(candidates, include_arabic) ==
  [context_parts |-> [i \in DOMAIN candidates |->
                        ContextPart(i, candidates[Len(candidates) + 1 - i], include_arabic)],
   reference_list |-> [i \in DOMAIN candidates |-> Citation(candidates[i])]]

\* the loop of generate_answer_with_context over filtered_chunks
Assemble(candidates, include_arabic) ==
  [context_parts |-> [i \in DOMAIN candidates |-> ContextPart(i, candidates[i], include_arabic)],
   reference_list |-> [i \in DOMAIN candidates |-> Citation(candidates[i])]]

\* context_parts = [], reference_list = []
NothingAssembled == [context_parts |-> <<>>, reference_list |-> <<>>]

QueryInit ==
  /\ qpc = "idle"
  /\ request = [query |-> <<>>, top_k |-> 0, volume_filter |-> 0]
  /\ query_embedding = <<>>
  /\ raw_results = <<>>
  /\ filtered_results = <<>>
  /\ chunks = <<>>
  /\ filtered_chunks = <<>>
  /\ gen_calls = 0
  /\ assembled = NothingAssembled
  /\ returned = {}
  /\ response = NoResponse

\* FastAPI hands a validated QueryRequest to search_bihar_anwar
QueryReceive ==
  /\ qpc = "idle"
  /\ \E q \in Queries, k \in TopKs, vf \in VolumeFilters :
       request' = [query |-> q, top_k |-> k, volume_filter |-> vf]
  /\ qpc' = "embed"
  /\ UNCHANGED nqvars
  /\ UNCHANGED <<db_conn, query_embedding, raw_results, filtered_results, chunks,
                 filtered_chunks, gen_calls, assembled, returned, response>>

\* generate_query_embedding: the service's vector, or the zero vector when the
\* result has no 'embedding' key or the call raises
GenerateQueryEmbedding ==
  /\ qpc = "embed"
  /\ \/ \E v \in Vectors \cup {<<>>} : query_embedding' = v
     \/ query_embedding' = ZeroVector
  /\ qpc' = "search"
  /\ UNCHANGED nqvars
  /\ UNCHANGED <<db_conn, request, raw_results, filtered_results, chunks,
                 filtered_chunks, gen_calls, assembled, returned, response>>

\* mutant: only the empty list is rejected
InvalidEmbedding_EmptyOnly(e) == e = <<>>

\* not query_embedding or all(x == 0.0 for x in query_embedding)
InvalidEmbedding(e) == e = <<>> \/ \A i \in DOMAIN e : e[i] = 0

\* raise HTTPException(status_code=500, ...) out of the handler's except
Http500 == [NoResponse EXCEPT !.status = 500]

\* search_similar_chunks_relaxed, called by the handler.  get_db_connection
\* runs first and outside the try: with no open connection it connects, and a
\* failed connect raises out of the function.
SearchSimilarChunksRelaxed ==
  /\ qpc = "search"
  /\ \/ \* connected (or connects now)
        /\ db_conn' = "open"
        /\ \/ /\ InvalidEmbedding(query_embedding)
              /\ raw_results' = <<>>
              /\ filtered_results' = <<>>
              /\ chunks' = <<>>
           \/ /\ ~InvalidEmbedding(query_embedding)
              /\ \E ids \in RawIdLists :
                   /\ Len(ids) <= request.top_k * 3
                   /\ \A i \in DOMAIN ids : SqlWhere(Rows[ids[i]], request.volume_filter)
                   /\ raw_results' = [i \in DOMAIN ids |-> Rows[ids[i]]]
                   /\ filtered_results' = FilterRelaxed(raw_results')
                   /\ chunks' = TakeTopK(SortRelaxed(filtered_results'), request.top_k)
           \/ \* cursor.execute raises: caught, return []
              /\ ~InvalidEmbedding(query_embedding)
              /\ raw_results' = <<>>
              /\ filtered_results' = <<>>
              /\ chunks' = <<>>
        /\ qpc' = "answer"
        /\ returned' = returned \cup {"search_similar_chunks_relaxed"}
        /\ UNCHANGED response
     \/ \* psycopg2.connect raises
        /\ db_conn = "none"
        /\ db_conn' = "none"
        /\ qpc' = "done"
        /\ response' = Http500
        /\ UNCHANGED <<raw_results, filtered_results, chunks, returned>>
  /\ UNCHANGED nqvars
  /\ UNCHANGED <<request, query_embedding, filtered_chunks, gen_calls, assembled>>

\* if not chunks: return HadithResponse(success=False, ...)
RespondNoChunks ==
  /\ qpc = "answer"
  /\ chunks = <<>>
  /\ response' = [status |-> 200, success |-> FALSE, answer |-> "no_relevant_traditions",
                  references |-> <<>>, total_sources |-> 0]
  /\ qpc' = "done"
  /\ UNCHANGED nqvars
  /\ UNCHANGED <<db_conn, request, query_embedding, raw_results, filtered_results,
                 chunks, filtered_chunks, gen_calls, assembled, returned>>

\* mutant: the empty filter result is not checked before generating
GenerateAnswerWithContext_NoEmptyCheck ==
  /\ qpc = "answer"
  /\ chunks # <<>>
  /\ filtered_chunks' = FilterRelevantChunks(chunks, request.query)
  /\ \E include_arabic \in BOOLEAN :
       assembled' = Assemble(filtered_chunks', include_arabic)
  /\ gen_calls' = gen_calls + 1
  /\ \E a \in {"generated", "generation_error"} :
       response' = [response EXCEPT !.answer = a]
  /\ returned' = returned \cup {"filter_relevant_chunks"}
  /\ qpc' = "references"
  /\ UNCHANGED nqvars
  /\ UNCHANGED <<db_conn, request, query_embedding, raw_results, filtered_results,
                 chunks>>

\* generate_answer_with_context(query, chunks, include_arabic)
GenerateAnswerWithContext ==
  /\ qpc = "answer"
  /\ chunks # <<>>
  /\ filtered_chunks' = FilterRelevantChunks(chunks, request.query)
  /\ IF filtered_chunks' = <<>>
       THEN /\ response' = [response EXCEPT !.answer = "insufficient_excerpts"]
            /\ UNCHANGED <<gen_calls, assembled>>
       ELSE /\ \E include_arabic \in BOOLEAN :
                 assembled' = Assemble(filtered_chunks', include_arabic)
            /\ gen_calls' = gen_calls + 1
            /\ \E a \in {"generated", "generation_error"} :
                 response' = [response EXCEPT !.answer = a]
  /\ returned' = returned \cup {"filter_relevant_chunks"}
  /\ qpc' = "references"
  /\ UNCHANGED nqvars
  /\ UNCHANGED <<db_conn, request, query_embedding, raw_results, filtered_results,
                 chunks>>

\* one entry of the handler's references list
ReferenceOf(chunk) ==
  [volume |-> chunk.volume_number,
   chapter |-> chunk.metadata.chapter,
   hadith_number |-> chunk.metadata.hadith_number,
   similarity_score |-> chunk.similarity]

\* the references loop and the final HadithResponse(success=True, ...)
RespondWithReferences ==
  /\ qpc = "references"
  /\ response' = [status |-> 200, success |-> TRUE, answer |-> response.answer,
                  references |-> [i \in DOMAIN chunks |-> ReferenceOf(chunks[i])],
                  total_sources |-> Len(chunks)]
  /\ qpc' = "done"
  /\ UNCHANGED nqvars
  /\ UNCHANGED <<db_conn, request, query_embedding, raw_results, filtered_results,
                 chunks, filtered_chunks, gen_calls, assembled, returned>>

RerunInit ==
  /\ rerun_chunks = <<>>
  /\ rerun_filtered = <<>>

NoIngestResponse == [run |-> 0, success |-> FALSE, chunks_created |-> 0]

IngestInit ==
  /\ store = {}
  /\ processed_volumes = {}
  /\ ipc = "idle"
  /\ irun = 0
  /\ ivolume = 0
  /\ ichunks = <<>>
  /\ iresponse = NoIngestResponse
  /\ completed = <<>>

ClientInit ==
  /\ cpc = "idle"
  /\ max_retries = 0
  /\ attempt = 0
  /\ outcomes = <<>>
  /\ cresult = "none"

EmbedInit ==
  /\ epc = "idle"
  /\ texts = <<>>
  /\ embeddings = <<>>
  /\ embed_calls = <<>>
  /\ embed_results = <<>>

SegmentInit ==
  /\ ppc = "idle"
  /\ pcall = <<>>
  /\ pages = <<>>
  /\ batch_start = 0
  /\ all_chunks = <<>>
  /\ batch_log = <<>>

ClassifierInit ==
  /\ lpc = "idle"
  /\ ltext = <<>>
  /\ lresult = <<>>

ExtractorInit ==
  /\ xpc = "idle"
  /\ xtext = <<>>
  /\ xmeta = <<>>
  /\ xadvanced = <<>>

CitationInit ==
  /\ tpc = "idle"
  /\ tchunk = <<>>
  /\ tref = <<>>
  /\ tsource = <<>>

RepairInit ==
  /\ fpc = "idle"
  /\ ftable = <<>>
  /\ fview = <<>>
  /\ fwritten = <<>>
  /\ fqueue = <<>>
  /\ fextracted = <<>>

TimedOutInit ==
  /\ wpc = "idle"
  /\ wmax = 0
  /\ wattempt = 0
  /\ wrequests = <<>>
  /\ wrows = {}
  /\ wresult = "none"

ConnectionInit ==
  /\ nconn = "none"
  /\ nlog = <<>>

TextInit ==
  /\ TimedOutInit
  /\ ConnectionInit
  /\ EmbedInit
  /\ SegmentInit
  /\ ClassifierInit
  /\ ExtractorInit
  /\ CitationInit
  /\ RepairInit

Init ==
  /\ db_conn \in {"none", "open"}
  /\ QueryInit
  /\ RerunInit
  /\ IngestInit
  /\ ClientInit
  /\ TextInit

Next ==
  \/ QueryReceive
  \/ GenerateQueryEmbedding
  \/ SearchSimilarChunksRelaxed
  \/ RespondNoChunks
  \/ GenerateAnswerWithContext
  \/ RespondWithReferences

Spec == Init /\ [][Next]_vars

\* ------------------------------------------------------------------ re-application of the ranker
FamilySize == 8
IdemTopKs == {1, 2, 10}

KeyDistance(x) == <<0, x.similarity>>

\* The vector query's answer over the chosen rows plus m rows of narrated
\* content: nearest first.
IdemRaw(ids, m) ==
  LET rows == [i \in 1..(Len(ids) + m) |->
                 IF i <= Len(ids) THEN Rows[ids[i]] ELSE FamilyRow(m + 1 - (i - Len(ids)))]
  IN StableSortDesc(rows, [i \in DOMAIN rows |-> KeyDistance(rows[i])])

IdemInit ==
  /\ db_conn = "open"
  /\ qpc = "rank"
  /\ \E q \in Queries, k \in IdemTopKs :
       request = [query |-> q, top_k |-> k, volume_filter |-> 0]
  /\ \E ids \in RawIdLists, m \in {0, FamilySize} : raw_results = IdemRaw(ids, m)
  /\ query_embedding = <<>>
  /\ filtered_results = <<>>
  /\ chunks = <<>>
  /\ filtered_chunks = <<>>
  /\ gen_calls = 0
  /\ assembled = NothingAssembled
  /\ returned = {}
  /\ response = NoResponse
  /\ RerunInit
  /\ IngestInit
  /\ ClientInit
  /\ TextInit

idemframe == <<db_conn, request, query_embedding, raw_results, filtered_results,
               gen_calls, assembled, returned, response, ivars, cvars, pvars>>

\* the ranking stage of search_similar_chunks_relaxed on a raw result list
IdemRank ==
  /\ qpc = "rank"
  /\ chunks' = RankRelaxed(raw_results, request.top_k)
  /\ qpc' = "rerank"
  /\ UNCHANGED <<idemframe, filtered_chunks, rerun_chunks, rerun_filtered>>

\* the same stage on its own output
IdemRerank ==
  /\ qpc = "rerank"
  /\ rerun_chunks' = RankRelaxed(chunks, request.top_k)
  /\ qpc' = "filter"
  /\ UNCHANGED <<idemframe, chunks, filtered_chunks, rerun_filtered>>

\* filter_relevant_chunks on the ranked list
IdemFilter ==
  /\ qpc = "filter"
  /\ filtered_chunks' = FilterRelevantChunks(chunks, request.query)
  /\ qpc' = "refilter"
  /\ UNCHANGED <<idemframe, chunks, rerun_chunks, rerun_filtered>>

\* filter_relevant_chunks on its own output
IdemRefilter ==
  /\ qpc = "refilter"
  /\ rerun_filtered' = FilterRelevantChunks(filtered_chunks, request.query)
  /\ qpc' = "done"
  /\ UNCHANGED <<idemframe, chunks, filtered_chunks, rerun_chunks>>

IdemNext == IdemRank \/ IdemRerank \/ IdemFilter \/ IdemRefilter

SpecIdem == IdemInit /\ [][IdemNext]_vars

\* ------------------------------------------------------------------ /process-volume
DB_BATCH_SIZE == 25

Volumes == {7, 8}
ChunkCounts == {0, 1, 26}     \* chunks process_pdf_text can return for a PDF

\* the row batch_insert_chunks inserts for one chunk (run: which request wrote it)
RowOf(chunk, run) ==
  [volume_number |-> chunk.volume_number, chunk_index |-> chunk.chunk_index, run |-> run]

\* rows committed when the execute of chunks_data[failed_at] raises
\* (failed_at = len(chunks_data): no failure): each complete batch before it
\* was committed, the rollback undoes the batch in progress
CommittedPrefix(total_chunks, batch_size, failed_at) ==
  IF failed_at >= total_chunks
    THEN total_chunks
    ELSE (failed_at \div batch_size) * batch_size

\* mutant: ON CONFLICT (volume_number) DO NOTHING
Upsert_DoNothing(table, rec) ==
  IF \E r \in table : r.volume_number = rec.volume_number
    THEN table
    ELSE table \cup {rec}

\* INSERT ... ON CONFLICT (volume_number) DO UPDATE SET total_chunks, processed_at
Upsert(table, rec) ==
  IF \E r \in table : r.volume_number = rec.volume_number
    THEN { IF r.volume_number = rec.volume_number
             THEN [r EXCEPT !.total_chunks = rec.total_chunks, !.run = rec.run]
             ELSE r : r \in table }
    ELSE table \cup {rec}

\* return {"success": False, ...}
IngestFails ==
  /\ iresponse' = [run |-> irun, success |-> FALSE, chunks_created |-> 0]
  /\ ipc' = "idle"

\* FastAPI hands a ProcessingRequest to process_bihar_volume; the handler has
\* no await, so requests run one after the other
IngestReceive ==
  /\ ipc = "idle"
  /\ irun < MaxRuns
  /\ irun' = irun + 1
  /\ \E v \in Volumes : ivolume' = v
  /\ ichunks' = <<>>
  /\ ipc' = "pdf"
  /\ UNCHANGED <<db_conn, store, processed_volumes, iresponse, completed>>
  /\ UNCHANGED <<qvars, rvars, cvars, pvars>>

\* chunks = process_pdf_text(...); if not chunks: return failure
ProcessPdfText ==
  /\ ipc = "pdf"
  /\ \/ \* process_pdf_text raises: caught by the handler's except
        /\ IngestFails
        /\ UNCHANGED ichunks
     \/ \E n \in ChunkCounts :
          /\ ichunks' = [i \in 1..n |-> [volume_number |-> ivolume, chunk_index |-> i - 1]]
          /\ IF n = 0
               THEN IngestFails
               ELSE ipc' = "embed" /\ UNCHANGED iresponse
  /\ UNCHANGED <<db_conn, store, processed_volumes, irun, ivolume, completed>>
  /\ UNCHANGED <<qvars, rvars, cvars, pvars>>

\* generate_embeddings: one vector per chunk, a zero vector for a failed
\* call; it raises nothing
GenerateEmbeddings ==
  /\ ipc = "embed"
  /\ ipc' = "insert"
  /\ UNCHANGED <<db_conn, store, processed_volumes, irun, ivolume, ichunks, iresponse,
                 completed>>
  /\ UNCHANGED <<qvars, rvars, cvars, pvars>>

\* stored = batch_insert_chunks(chunks, batch_size=DB_BATCH_SIZE)
BatchInsertChunks ==
  /\ ipc = "insert"
  /\ \/ \* get_db_connection: psycopg2.connect raises
        /\ db_conn = "none"
        /\ UNCHANGED <<db_conn, store>>
        /\ IngestFails
     \/ /\ db_conn' = "open"
        /\ \E failed_at \in 0..Len(ichunks) :
             LET n == CommittedPrefix(Len(ichunks), DB_BATCH_SIZE, failed_at)
             IN /\ store' = store \cup { RowOf(ichunks[i], irun) : i \in 1..n }
                /\ IF failed_at < Len(ichunks)
                     THEN IngestFails
                     ELSE ipc' = "record" /\ UNCHANGED iresponse
  /\ UNCHANGED <<processed_volumes, irun, ivolume, ichunks, completed>>
  /\ UNCHANGED <<qvars, rvars, cvars, pvars>>

\* record_processed_volume(volume_number, file_name, stored) and the
\* handler's return {"success": True, ...}
RecordProcessedVolume ==
  /\ ipc = "record"
  /\ \/ /\ processed_volumes' =
             Upsert(processed_volumes,
                    [volume_number |-> ivolume, total_chunks |-> Len(ichunks), run |-> irun])
        /\ completed' = Append(completed, <<irun, ivolume, Len(ichunks)>>)
        /\ iresponse' = [run |-> irun, success |-> TRUE, chunks_created |-> Len(ichunks)]
        /\ ipc' = "idle"
     \/ \* the execute or the commit raises: caught by the handler's except
        /\ IngestFails
        /\ UNCHANGED <<processed_volumes, completed>>
  /\ UNCHANGED <<db_conn, store, irun, ivolume, ichunks>>
  /\ UNCHANGED <<qvars, rvars, cvars, pvars>>

IngestNext ==
  \/ IngestReceive
  \/ ProcessPdfText
  \/ GenerateEmbeddings
  \/ BatchInsertChunks
  \/ RecordProcessedVolume

SpecIngest == Init /\ [][IngestNext]_vars

\* ------------------------------------------------------------------ process_volume_with_retry
\* How one requests.post(...) / raise_for_status() / response.json() ends:
\* requests.exceptions.Timeout, another exception (transport error, HTTP
\* error status, invalid JSON), or a JSON result that reports success or not.
PostOutcomes == {"timeout", "transport_error", "http_error", "success_true", "success_false"}

\* mutant: the last permitted retry is never made
CanRetry_OffByOne(a, retries) == a < retries - 1

\* if attempt < max_retries
CanRetry(a, retries) == a < retries

\* process_volume_with_retry(pdf_path, volume_number, max_retries) is called
RetryCall ==
  /\ cpc = "idle"
  /\ \E m \in 0..MaxRetries : max_retries' = m
  /\ attempt' = 0
  /\ outcomes' = <<>>
  /\ cresult' = "none"
  /\ cpc' = "loop"
  /\ UNCHANGED <<db_conn, qvars, rvars, ivars, pvars>>

\* for attempt in range(max_retries + 1): requests.post(...)
RetryPost ==
  /\ cpc = "loop"
  /\ attempt < max_retries + 1
  /\ \E o \in PostOutcomes : outcomes' = Append(outcomes, o)
  /\ cpc' = "posted"
  /\ UNCHANGED <<max_retries, attempt, cresult>>
  /\ UNCHANGED <<db_conn, qvars, rvars, ivars, pvars>>

\* mutant: a result that reports success does not end the loop
RetryReturnSuccess_Continues ==
  /\ cpc = "posted"
  /\ outcomes[Len(outcomes)] = "success_true"
  /\ IF attempt < max_retries
       THEN attempt' = attempt + 1 /\ cpc' = "loop" /\ UNCHANGED cresult
       ELSE cresult' = "success" /\ cpc' = "returned" /\ UNCHANGED attempt
  /\ UNCHANGED <<max_retries, outcomes>>
  /\ UNCHANGED <<db_conn, qvars, rvars, ivars, pvars>>

\* if result.get("success"): return result
RetryReturnSuccess ==
  /\ cpc = "posted"
  /\ outcomes[Len(outcomes)] = "success_true"
  /\ cresult' = "success"
  /\ cpc' = "returned"
  /\ UNCHANGED <<max_retries, attempt, outcomes>>
  /\ UNCHANGED <<db_conn, qvars, rvars, ivars, pvars>>

\* else: return {"success": False, "error": result.get("error", ...)}
RetryReturnServerFailure ==
  /\ cpc = "posted"
  /\ outcomes[Len(outcomes)] = "success_false"
  /\ cresult' = "failure"
  /\ cpc' = "returned"
  /\ UNCHANGED <<max_retries, attempt, outcomes>>
  /\ UNCHANGED <<db_conn, qvars, rvars, ivars, pvars>>

\* except requests.exceptions.Timeout
RetryOnTimeout ==
  /\ cpc = "posted"
  /\ outcomes[Len(outcomes)] = "timeout"
  /\ IF CanRetry(attempt, max_retries)
       THEN attempt' = attempt + 1 /\ cpc' = "loop" /\ UNCHANGED cresult
       ELSE cresult' = "failure" /\ cpc' = "returned" /\ UNCHANGED attempt
  /\ UNCHANGED <<max_retries, outcomes>>
  /\ UNCHANGED <<db_conn, qvars, rvars, ivars, pvars>>

\* except Exception (time.sleep(5) before the retry)
RetryOnException ==
  /\ cpc = "posted"
  /\ outcomes[Len(outcomes)] \in {"transport_error", "http_error"}
  /\ IF CanRetry(attempt, max_retries)
       THEN attempt' = attempt + 1 /\ cpc' = "loop" /\ UNCHANGED cresult
       ELSE cresult' = "failure" /\ cpc' = "returned" /\ UNCHANGED attempt
  /\ UNCHANGED <<max_retries, outcomes>>
  /\ UNCHANGED <<db_conn, qvars, rvars, ivars, pvars>>

\* The "Max retries exceeded" return after the loop is not an action: every
\* branch of the last iteration (attempt = max_retries) returns.
\* the batch processor goes on to its next volume
RetryNextVolume ==
  /\ cpc = "returned"
  /\ cpc' = "idle"
  /\ UNCHANGED <<max_retries, attempt, outcomes, cresult>>
  /\ UNCHANGED <<db_conn, qvars, rvars, ivars, pvars>>

RetryNext ==
  \/ RetryCall
  \/ RetryPost
  \/ RetryReturnSuccess
  \/ RetryReturnServerFailure
  \/ RetryOnTimeout
  \/ RetryOnException
  \/ RetryNextVolume

SpecRetry == Init /\ [][RetryNext]_vars

\* Every requests.post has a timeout (300 s, then 600 s) and every branch after
\* it is straight-line code, so a step of the loop that can be taken is taken.
SpecRetryLive == Init /\ [][RetryNext]_vars /\ WF_vars(RetryNext)

\* ------------------------------------------------------------------ a retry after a timeout
WChunks == 2         \* chunks of the volume's PDF

\* the client and the server, except the variables below
wframe == <<db_conn, qvars, rvars, ivars, cvars, evars, svars, lvars, xvars, tvars, fvars,
            nvars>>

Answered(state) == state \in {"done", "failed"}

\* process_volume_with_retry(pdf_path, 7, max_retries) is called
TimedCall ==
  /\ wpc = "idle"
  /\ wrequests = <<>>
  /\ \E m \in 0..MaxRetries : wmax' = m
  /\ wattempt' = 0
  /\ wpc' = "loop"
  /\ UNCHANGED <<wrequests, wrows, wresult>>
  /\ UNCHANGED wframe

\* requests.post(url, json=payload, timeout=timeout): the request is sent
TimedPost ==
  /\ wpc = "loop"
  /\ wrequests' = Append(wrequests, "queued")
  /\ wpc' = "waiting"
  /\ UNCHANGED <<wmax, wattempt, wrows, wresult>>
  /\ UNCHANGED wframe

\* async def process_bihar_volume: the handler has no await, so the server
\* takes a request up when the requests before it are finished
HandlerStart ==
  /\ \E i \in DOMAIN wrequests :
       /\ wrequests[i] = "queued"
       /\ \A j \in 1..(i - 1) : Answered(wrequests[j])
       /\ wrequests' = [wrequests EXCEPT ![i] = "running"]
  /\ UNCHANGED <<wpc, wmax, wattempt, wrows, wresult>>
  /\ UNCHANGED wframe

\* the handler runs to its return, whether or not the client still waits:
\* batch_insert_chunks inserted every chunk, or the run failed before any commit
HandlerFinish ==
  /\ \E i \in DOMAIN wrequests :
       /\ wrequests[i] = "running"
       /\ \/ /\ wrequests' = [wrequests EXCEPT ![i] = "done"]
             /\ wrows' = wrows \cup { [chunk_index |-> k, request |-> i] : k \in 0..(WChunks - 1) }
          \/ /\ wrequests' = [wrequests EXCEPT ![i] = "failed"]
             /\ UNCHANGED wrows
  /\ UNCHANGED <<wpc, wmax, wattempt, wresult>>
  /\ UNCHANGED wframe

\* the response arrives in time: return result, or return a failure
TimedResponse ==
  /\ wpc = "waiting"
  /\ Answered(wrequests[Len(wrequests)])
  /\ wresult' = IF wrequests[Len(wrequests)] = "done" THEN "success" ELSE "failure"
  /\ wpc' = "returned"
  /\ UNCHANGED <<wmax, wattempt, wrequests, wrows>>
  /\ UNCHANGED wframe

\* except requests.exceptions.Timeout: no response within timeout seconds
TimedTimeout ==
  /\ wpc = "waiting"
  /\ ~Answered(wrequests[Len(wrequests)])
  /\ IF CanRetry(wattempt, wmax)
       THEN wattempt' = wattempt + 1 /\ wpc' = "loop" /\ UNCHANGED wresult
       ELSE wresult' = "failure" /\ wpc' = "returned" /\ UNCHANGED wattempt
  /\ UNCHANGED <<wmax, wrequests, wrows>>
  /\ UNCHANGED wframe

TimedNext ==
  \/ TimedCall
  \/ TimedPost
  \/ HandlerStart
  \/ HandlerFinish
  \/ TimedResponse
  \/ TimedTimeout

SpecTimedOut == Init /\ [][TimedNext]_vars

\* ------------------------------------------------------------------ the shared connection
MaxOps == 3          \* store operations in one behaviour

nframe == <<db_conn, qvars, rvars, ivars, cvars, evars, svars, lvars, xvars, tvars, fvars,
            wvars>>

\* how a cursor.execute ends on a connection that accepts statements
StatementOutcomes == {"ok", "statement_error", "connection_lost"}

Searches == {"search_similar_chunks_relaxed", "search_by_reference_relaxed"}

\* if db_conn is None or db_conn.closed: db_conn = psycopg2.connect(**DB_CONFIG)
GetDbConnection(conn) == IF conn \in {"none", "closed"} THEN "ready" ELSE conn

\* a statement on a connection whose transaction has failed is refused until
\* the transaction is ended
Rejected(conn) == conn = "aborted"

\* the connection after cursor.execute; nothing is set to autocommit, so a
\* statement opens a transaction and a failed statement leaves it failed
Execute(conn, outcome) ==
  IF Rejected(conn) THEN "aborted"
  ELSE IF outcome = "ok" THEN "in_transaction"
  ELSE IF outcome = "statement_error" THEN "aborted"
  ELSE "closed"

\* conn.commit() / conn.rollback(): the transaction is ended
EndTransaction(conn) == IF conn = "closed" THEN "closed" ELSE "ready"

Ended(conn, outcome, on_error) ==
  IF Rejected(conn) THEN "rejected"
  ELSE IF outcome = "ok" THEN "ok"
  ELSE on_error

\* search_similar_chunks_relaxed / search_by_reference_relaxed:
\*   try: cursor.execute(...) ... except Exception: return []  finally: cursor.close()
ConnSearch ==
  /\ Len(nlog) < MaxOps
  /\ \E op \in Searches : \E outcome \in StatementOutcomes :
       /\ nconn' = Execute(GetDbConnection(nconn), outcome)
       /\ nlog' = Append(nlog, [op |-> op,
                                ended |-> Ended(GetDbConnection(nconn), outcome, "error_caught")])
  /\ UNCHANGED nframe

\* get_database_stats: cursor.execute(...) with no try
ConnStats ==
  /\ Len(nlog) < MaxOps
  /\ \E outcome \in StatementOutcomes :
       /\ nconn' = Execute(GetDbConnection(nconn), outcome)
       /\ nlog' = Append(nlog, [op |-> "get_database_stats",
                                ended |-> Ended(GetDbConnection(nconn), outcome, "error_raised")])
  /\ UNCHANGED nframe

\* batch_insert_chunks: execute ... conn.commit(); except: conn.rollback(); raise
ConnInsert ==
  /\ Len(nlog) < MaxOps
  /\ \E outcome \in StatementOutcomes :
       /\ nconn' = EndTransaction(Execute(GetDbConnection(nconn), outcome))
       /\ nlog' = Append(nlog, [op |-> "batch_insert_chunks",
                                ended |-> Ended(GetDbConnection(nconn), outcome, "error_raised")])
  /\ UNCHANGED nframe

ConnNext ==
  \/ ConnSearch
  \/ ConnStats
  \/ ConnInsert

SpecConn == Init /\ [][ConnNext]_vars

\* ------------------------------------------------------------------ claims: ranker
Searched == "search_similar_chunks_relaxed" \in returned
Filtered == "filter_relevant_chunks" \in returned

\* the content-priority signal, as the claims word it
ClaimSignal(c) ==
  \/ \E cue \in {"said", "narrated", "reported", "tradition", "hadith"} :
       Contains(Lower(c.english_text), <<cue>>)
  \/ \E cue \in {"AR_qala", "AR_an"} : Contains(c.arabic_text, <<cue>>)
  \/ c.hadith_number # None

\* the boilerplate signatures, as the claims word them
ClaimBoilerplate(c) ==
  LET t == Strip(Lower(c.full_text))
      n == TextLen(t)
  IN \/ (Contains(t, <<"table", "of", "contents">>) /\ n < 200)
     \/ (StartsWith(t, <<"overall">>) /\ Contains(t, <<"index">>) /\ n < 150)
     \/ (Contains(t, <<"bihar", "al-anwaar">>) /\ n < 80)
     \/ (StartsWith(t, <<"chapter">>) /\ n < 120)

ClaimKey(c) == <<IF ClaimSignal(c) THEN 1 ELSE 0, c.similarity>>

\* C1: in the returned list every candidate with the content-priority signal
\* precedes every candidate without it, and inside each group the similarity
\* is non-increasing.
C1_SignalFirstThenSimilarity ==
  Searched =>
    \A i, j \in DOMAIN chunks : i < j =>
      /\ (ClaimSignal(chunks[j]) => ClaimSignal(chunks[i]))
      /\ (ClaimSignal(chunks[i]) = ClaimSignal(chunks[j])
            => chunks[i].similarity >= chunks[j].similarity)

\* a signal candidate of similarity 0.5 returned before a plain one of 0.9
C1_Witness ==
  /\ Searched
  /\ \E i, j \in DOMAIN chunks :
       /\ i < j
       /\ ClaimSignal(chunks[i]) /\ chunks[i].similarity = 50
       /\ ~ClaimSignal(chunks[j]) /\ chunks[j].similarity = 90

SurvivorIdx == { j \in DOMAIN raw_results : ~ClaimBoilerplate(raw_results[j]) }

\* C2: at most top_k candidates are returned, each a distinct raw candidate
\* that passed the exclusion test, and they are the first top_k of the sorted
\* survivors: no survivor left out ranks above a returned one.
C2_TopKOfSortedSurvivors ==
  Searched =>
    /\ Len(chunks) <= request.top_k
    /\ Len(chunks) = Min(request.top_k, Cardinality(SurvivorIdx))
    /\ \A i \in DOMAIN chunks :
         \E j \in SurvivorIdx :
           [chunks[i] EXCEPT !.content_priority = 0] = raw_results[j]
    /\ \A i, j \in DOMAIN chunks : i # j => chunks[i].id # chunks[j].id
    /\ \A j \in SurvivorIdx :
         (\A i \in DOMAIN chunks : chunks[i].id # raw_results[j].id)
           => \A i \in DOMAIN chunks :
                ~KeyGt(ClaimKey(raw_results[j]), ClaimKey(chunks[i]))

\* more survivors than top_k, so the slice cuts some off
C2_Witness ==
  /\ Searched
  /\ Cardinality(SurvivorIdx) > request.top_k
  /\ Len(chunks) = request.top_k

\* C5: no returned candidate matches a boilerplate signature, whatever its
\* priority signal, and every raw candidate that matches none reaches the sort.
C5_ExclusionIndependentOfSignal ==
  Searched =>
    /\ \A i \in DOMAIN chunks : ~ClaimBoilerplate(chunks[i])
    /\ \A i \in DOMAIN filtered_results : ~ClaimBoilerplate(filtered_results[i])
    /\ \A j \in SurvivorIdx :
         \E i \in DOMAIN filtered_results : filtered_results[i].id = raw_results[j].id

\* a boilerplate candidate that has the signal was dropped, a plain content
\* candidate was kept
C5_Witness ==
  /\ Searched
  /\ \E j \in DOMAIN raw_results :
       ClaimBoilerplate(raw_results[j]) /\ ClaimSignal(raw_results[j])
  /\ \E i \in DOMAIN chunks : ~ClaimSignal(chunks[i])

\* C3: the filter-and-rank step is idempotent: the ranking stage of
\* search_similar_chunks_relaxed and filter_relevant_chunks each return their
\* own output unchanged, same candidates in the same order.
C3_FilterAndRankIdempotent ==
  /\ (qpc \in {"filter", "refilter", "done"} => rerun_chunks = chunks)
  /\ (qpc = "done" => rerun_filtered = filtered_chunks)

\* both stages dropped or cut candidates, the second down to its limit, and
\* the filtered list holds two candidates with equal sort keys
C3_Witness ==
  /\ qpc = "done"
  /\ Len(chunks) < Len(raw_results)
  /\ Len(filtered_chunks) < Len(chunks)
  /\ Len(filtered_chunks) = FilterLimit
  /\ \E i, j \in DOMAIN filtered_chunks :
       i # j /\ KeyFilter(filtered_chunks[i]) = KeyFilter(filtered_chunks[j])

RawPos(c) == CHOOSE j \in DOMAIN raw_results : raw_results[j].id = c.id

RecordsOf(v) == { r \in processed_volumes : r.volume_number = v }

CompletedOf(v) == { i \in DOMAIN completed : completed[i][2] = v }

LastCompletedOf(v) == CHOOSE i \in CompletedOf(v) : \A j \in CompletedOf(v) : j <= i

\* C8: processed_volumes holds at most one record per volume_number, and it
\* carries the passage count of the most recent run that completed for the
\* volume (no record for a volume no run completed for).
C8_OneRecordPerVolume ==
  \A v \in Volumes :
    /\ Cardinality(RecordsOf(v)) <= 1
    /\ (CompletedOf(v) = {} => RecordsOf(v) = {})
    /\ (CompletedOf(v) # {} =>
          \E r \in RecordsOf(v) : r.total_chunks = completed[LastCompletedOf(v)][3])

\* a volume ingested twice to completion, with different passage counts
C8_Witness ==
  \E v \in Volumes :
    \E i, j \in CompletedOf(v) : i < j /\ completed[i][3] # completed[j][3]

\* C9 (as claimed): a run that returned success = false left no passage of
\* its own in the store and wrote no ingestion record.
C9_FailedRunLeavesNothing ==
  (ipc = "idle" /\ irun > 0 /\ ~iresponse.success) =>
    /\ iresponse.run = irun
    /\ { row \in store : row.run = irun } = {}
    /\ { r \in processed_volumes : r.run = irun } = {}


\* ------------------------------------------------------------------ claims: retry
Retryable == {"timeout", "transport_error", "http_error"}

\* C10 (as claimed): process_volume_with_retry returns a failure only after
\* max_retries + 1 attempts have failed.
C10_FailureOnlyAfterAllAttempts ==
  (cpc = "returned" /\ cresult = "failure") => Len(outcomes) = max_retries + 1

\* C10 (amended): an attempt that ends in a timeout or a transport/HTTP error
\* is retried while attempts remain; a response with success = false is
\* returned as a failure at once.  So a failure is returned either after
\* max_retries + 1 attempts or on the first success = false response.
C10_FailureAfterAllAttemptsOrServerFailure ==
  (cpc = "returned" /\ cresult = "failure") =>
    /\ Len(outcomes) >= 1
    /\ \A i \in 1..(Len(outcomes) - 1) : outcomes[i] \in Retryable
    /\ \/ outcomes[Len(outcomes)] = "success_false"
       \/ (outcomes[Len(outcomes)] \in Retryable /\ Len(outcomes) = max_retries + 1)

\* a failure surfaced after a first timeout was retried and every later
\* attempt failed too
C10_Witness ==
  /\ cpc = "returned"
  /\ cresult = "failure"
  /\ max_retries >= 1
  /\ Len(outcomes) = max_retries + 1
  /\ outcomes[1] = "timeout"
  /\ outcomes[Len(outcomes)] \in Retryable


\* ------------------------------------------------------------------ claims: /query
NoContentAnswers == {"no_relevant_traditions", "insufficient_excerpts"}

\* C6: when the search returns no candidate, or filter_relevant_chunks removes
\* every candidate, the request ends with a "no relevant content" answer, the
\* generation collaborator was not invoked and no exception was raised.
C6_EmptyResultIsAnswered ==
  (qpc = "done" /\ ((Searched /\ chunks = <<>>) \/ (Filtered /\ filtered_chunks = <<>>)))
    => /\ response.status = 200
       /\ response.answer \in NoContentAnswers
       /\ gen_calls = 0

\* the search returned candidates and filter_relevant_chunks removed them all
C6_Witness ==
  /\ qpc = "done"
  /\ chunks # <<>>
  /\ Filtered /\ filtered_chunks = <<>>

\* C7: a query whose embedding is the all-zero vector yields an empty
\* candidate list and completes without invoking the generation collaborator.
C7_ZeroVectorShortCircuits ==
  (qpc \in {"answer", "references", "done"} /\ query_embedding = ZeroVector)
    => /\ raw_results = <<>>
       /\ chunks = <<>>
       /\ gen_calls = 0
       /\ (qpc = "done" /\ Searched =>
             /\ response.status = 200
             /\ response.answer = "no_relevant_traditions"
             /\ response.references = <<>>)

\* a zero-vector query answered
C7_Witness ==
  /\ qpc = "done"
  /\ query_embedding = ZeroVector
  /\ Searched
  /\ response.status = 200


\* ------------------------------------------------------------------ generate_embeddings
MaxTexts == 3
EMBEDDING_BATCH_SIZE == 2
EmbedTextLimit == 4000

\* a text to embed: which text it is, and its len()
EmbedTexts == [id : {1, 2}, len : {700, 5000}]

\* How one genai.embed_content call ends: a result with a vector, a result
\* without the 'embedding' key, a result whose embedding is empty, an exception.
EmbedOutcomes == {"embedding", "no_embedding", "empty_embedding", "exception"}

\* The vector the service computes for a text (stands for 768 components);
\* it depends on the text and is never all-zero.
ServiceVector(text) == [k \in 1..VecLen |-> text.id]

\* mutant: result['embedding'] is appended whenever the key is present
EmbeddingFor_NoEmptyCheck(outcome, text) ==
  CASE outcome = "embedding" -> ServiceVector(text)
    [] outcome = "empty_embedding" -> <<>>
    [] OTHER -> ZeroVector

\* what one pass of the inner loop appends to embeddings
EmbeddingFor(outcome, text) ==
  IF outcome = "embedding" THEN ServiceVector(text) ELSE ZeroVector

\* generate_embeddings(texts, batch_size = EMBEDDING_BATCH_SIZE) is called
EmbedCall ==
  /\ epc = "idle"
  /\ \E n \in 0..MaxTexts : \E ts \in [1..n -> EmbedTexts] : texts' = ts
  /\ embeddings' = <<>>
  /\ embed_calls' = <<>>
  /\ embed_results' = <<>>
  /\ epc' = "loop"
  /\ UNCHANGED <<db_conn, qvars, rvars, ivars, cvars, svars, lvars, xvars, ovars>>

\* one pass of `for j, text in enumerate(batch)` inside
\* `for i in range(0, total_texts, batch_size)`: text number i + j
EmbedText ==
  /\ epc = "loop"
  /\ Len(embeddings) < Len(texts)
  /\ LET i == (Len(embeddings) \div EMBEDDING_BATCH_SIZE) * EMBEDDING_BATCH_SIZE
         j == Len(embeddings) % EMBEDDING_BATCH_SIZE
         text == texts[i + j + 1]
         limited_len == IF text.len > EmbedTextLimit THEN EmbedTextLimit ELSE text.len
     IN /\ embed_calls' = Append(embed_calls, [pos |-> i + j + 1, content_len |-> limited_len])
        /\ \E outcome \in EmbedOutcomes :
             /\ embed_results' = Append(embed_results, outcome)
             /\ embeddings' = Append(embeddings, EmbeddingFor(outcome, text))
  /\ UNCHANGED <<epc, texts>>
  /\ UNCHANGED <<db_conn, qvars, rvars, ivars, cvars, svars, lvars, xvars, ovars>>

\* return embeddings
EmbedReturn ==
  /\ epc = "loop"
  /\ Len(embeddings) >= Len(texts)
  /\ epc' = "returned"
  /\ UNCHANGED <<texts, embeddings, embed_calls, embed_results>>
  /\ UNCHANGED <<db_conn, qvars, rvars, ivars, cvars, svars, lvars, xvars, ovars>>

EmbedNext ==
  \/ EmbedCall
  \/ EmbedText
  \/ EmbedReturn

SpecEmbed == Init /\ [][EmbedNext]_vars

\* ------------------------------------------------------------------ claims: generate_embeddings
\* the calls made for the text at position p
CallsFor(p) == {c \in DOMAIN embed_calls : embed_calls[c].pos = p}

MaxPages == 4
PageBatchSize == 3
MinPageLen == 50
MinChunkLen == 50
CHUNK_SIZE == 600
CHUNK_OVERLAP == 80
MAX_PAGES_PER_VOLUME == 100
LargeFilePages == 50

\* What reader.pages[n].extract_text() gives: an exception, no text, a text
\* of 40 characters, one paragraph of 300 characters, or a paragraph of 590
\* characters followed by a line of 30.  A text is the list of the lengths
\* of the pieces its separators delimit.
PageKinds == {"raises", "empty", "short", "para", "tail"}

PageText(kind) ==
  CASE kind = "short" -> <<40>>
    [] kind = "para" -> <<300>>
    [] kind = "tail" -> <<590, 30>>
    [] OTHER -> <<>>

\* len() of pieces a..b of a text joined by one separator character each
RECURSIVE SpanLen(_, _, _)
SpanLen(pieces, a, b) ==
  IF a > b THEN 0
  ELSE pieces[a].len + (IF a < b THEN 1 ELSE 0) + SpanLen(pieces, a + 1, b)

\* len(cleaned_text) of a page
CleanedLen(kind) ==
  LET t == PageText(kind)
      ps == [k \in DOMAIN t |-> [len |-> t[k]]]
  IN SpanLen(ps, 1, Len(ps))

\* f"\n--- Page {page_num + 1} ---\n" + cleaned_text, as pieces
PagePieces(page_num, kind) ==
  LET t == PageText(kind)
  IN <<[page |-> page_num + 1, marker |-> TRUE, len |-> 14]>> \o
     [k \in DOMAIN t |-> [page |-> page_num + 1, marker |-> FALSE, len |-> t[k]]]

\* batch_text after the page loop over range(batch_start, batch_end); a
\* page that raises, has no text, or has at most 50 characters adds nothing
RECURSIVE BatchText(_, _, _)
BatchText(pgs, page_num, batch_end) ==
  IF page_num >= batch_end THEN <<>>
  ELSE (IF pgs[page_num + 1] \in {"raises", "empty"} \/ CleanedLen(pgs[page_num + 1]) <= MinPageLen
          THEN <<>>
          ELSE PagePieces(page_num, pgs[page_num + 1]))
       \o BatchText(pgs, page_num + 1, batch_end)

\* pages_to_process = min(total_pages, max_pages), max_pages cut to 50 for a
\* file above 8 MB
PagesToProcess(total_pages, large_file) ==
  Min(total_pages, IF large_file THEN Min(MAX_PAGES_PER_VOLUME, LargeFilePages)
                                 ELSE MAX_PAGES_PER_VOLUME)


\* RecursiveCharacterTextSplitter(chunk_size, chunk_overlap, ...).split_text:
\* the library is given the two sizes; every list of chunks it may return
\* under them is allowed.  A chunk is a run first..last of pieces; the
\* chunks go through the text from its first piece to its last, each starts
\* and ends after the one before, none leaves a gap, two neighbours share at
\* most chunk_overlap characters, and only a single piece may be longer
\* than chunk_size.
RECURSIVE ChunksFrom(_, _, _, _, _)
ChunksFrom(pieces, first, prev_last, chunk_size, chunk_overlap) ==
  LET n == Len(pieces)
      lasts == {b \in first..n :
                  /\ b > prev_last
                  /\ (b = first \/ SpanLen(pieces, first, b) <= chunk_size)}
      nexts(b) == {a \in (first + 1)..(b + 1) : SpanLen(pieces, a, b) <= chunk_overlap}
  IN UNION {IF b = n
              THEN {<<[first |-> first, last |-> b]>>}
              ELSE UNION {{<<[first |-> first, last |-> b]>> \o rest :
                             rest \in ChunksFrom(pieces, a, b, chunk_size, chunk_overlap)} :
                          a \in nexts(b)}
            : b \in lasts}

SplitText(pieces, chunk_size, chunk_overlap) ==
  IF pieces = <<>> THEN {<<>>} ELSE ChunksFrom(pieces, 1, 0, chunk_size, chunk_overlap)

\* mutant: the threshold under which a chunk is skipped is 400
IsTiny_Wide(chunk_len) == chunk_len < 400

\* if len(chunk.strip()) < 50: continue
IsTiny(chunk_len) == chunk_len < MinChunkLen

\* mutant: chunk_idx of enumerate(chunks)
ChunkIndex_PerBatch(chunks_so_far, chunk_idx) == chunk_idx

\* 'chunk_index': len(all_chunks)
ChunkIndex(chunks_so_far, chunk_idx) == Len(chunks_so_far)

\* the loop `for chunk_idx, chunk in enumerate(chunks)` over the split up to, not
\* including, position stop (1-based): tiny chunks are skipped, the others
\* are appended to all_chunks
RECURSIVE AppendChunks(_, _, _, _, _, _)
AppendChunks(acc, pieces, split, k, stop, start) ==
  IF k >= stop \/ k > Len(split) THEN acc
  ELSE LET chunk_len == SpanLen(pieces, split[k].first, split[k].last)
           chunk_data == [chunk_index |-> ChunkIndex(acc, k - 1),
                          batch |-> start,
                          first |-> split[k].first,
                          last |-> split[k].last,
                          len |-> chunk_len]
       IN AppendChunks(IF IsTiny(chunk_len) THEN acc ELSE Append(acc, chunk_data),
                       pieces, split, k + 1, stop, start)


\* (chunk_size, chunk_overlap) the splitter is built with: the configured
\* pair and a smaller one
ChunkConfigs == {<<CHUNK_SIZE, CHUNK_OVERLAP>>, <<320, 20>>}

\* mutant: the chunks of a batch that raised are taken back
KeptOnBatchError_Discard(before, now) == before

\* except Exception: print(...); continue -- all_chunks stays as it is
KeptOnBatchError(before, now) == now

\* process_pdf_text(pdf_path, volume_num, max_pages) is called and opens the file
PdfCall ==
  /\ ppc = "idle"
  /\ \E n \in 0..MaxPages : \E pgs \in [1..n -> PageKinds] : pages' = pgs
  /\ \E v \in {7}, large \in BOOLEAN, cfg \in ChunkConfigs :
       pcall' = [volume_num |-> v, large_file |-> large,
                 chunk_size |-> cfg[1], chunk_overlap |-> cfg[2]]
  /\ batch_start' = 0
  /\ all_chunks' = <<>>
  /\ batch_log' = <<>>
  /\ ppc' = "loop"
  /\ UNCHANGED <<db_conn, qvars, rvars, ivars, cvars, evars, lvars, xvars, ovars>>

\* os.path.getsize or PdfReader raises: raise Exception("Error processing PDF: ...")
PdfOpenFails ==
  /\ ppc = "idle"
  /\ ppc' = "raised"
  /\ UNCHANGED <<pcall, pages, batch_start, all_chunks, batch_log>>
  /\ UNCHANGED <<db_conn, qvars, rvars, ivars, cvars, evars, lvars, xvars, ovars>>

\* one pass of `for batch_start in range(0, pages_to_process, batch_size)`
ProcessBatch ==
  /\ ppc = "loop"
  /\ batch_start < PagesToProcess(Len(pages), pcall.large_file)
  /\ LET batch_end == Min(batch_start + PageBatchSize,
                          PagesToProcess(Len(pages), pcall.large_file))
         batch_text == BatchText(pages, batch_start, batch_end)
         entry(kind, split, stop) ==
           [start |-> batch_start, end |-> batch_end, kind |-> kind, text |-> batch_text,
            split |-> split, stop |-> stop, before |-> Len(all_chunks)]
     IN \/ /\ batch_text = <<>>                      \* if not batch_text.strip(): continue
           /\ batch_log' = Append(batch_log, entry("no_text", <<>>, 0))
           /\ UNCHANGED all_chunks
        \/ /\ batch_text # <<>>                      \* splitter.split_text raises
           /\ batch_log' = Append(batch_log, entry("split_raised", <<>>, 0))
           /\ all_chunks' = KeptOnBatchError(all_chunks, all_chunks)
        \/ /\ batch_text # <<>>                      \* the chunk loop runs to its end
           /\ \E split \in SplitText(batch_text, pcall.chunk_size, pcall.chunk_overlap) :
                /\ batch_log' = Append(batch_log, entry("ok", split, Len(split) + 1))
                /\ all_chunks' = AppendChunks(all_chunks, batch_text, split, 1,
                                              Len(split) + 1, batch_start)
        \/ /\ batch_text # <<>>                      \* processing chunk number stop raises
           /\ \E split \in SplitText(batch_text, pcall.chunk_size, pcall.chunk_overlap) :
                \E stop \in DOMAIN split :
                  /\ ~IsTiny(SpanLen(batch_text, split[stop].first, split[stop].last))
                  /\ batch_log' = Append(batch_log, entry("chunk_raised", split, stop))
                  /\ all_chunks' =
                       KeptOnBatchError(all_chunks,
                                        AppendChunks(all_chunks, batch_text, split, 1,
                                                     stop, batch_start))
  /\ batch_start' = batch_start + PageBatchSize
  /\ UNCHANGED <<ppc, pcall, pages>>
  /\ UNCHANGED <<db_conn, qvars, rvars, ivars, cvars, evars, lvars, xvars, ovars>>

\* return all_chunks
PdfReturn ==
  /\ ppc = "loop"
  /\ batch_start >= PagesToProcess(Len(pages), pcall.large_file)
  /\ ppc' = "returned"
  /\ UNCHANGED <<pcall, pages, batch_start, all_chunks, batch_log>>
  /\ UNCHANGED <<db_conn, qvars, rvars, ivars, cvars, evars, lvars, xvars, ovars>>

SegmentNext ==
  \/ PdfCall
  \/ PdfOpenFails
  \/ ProcessBatch
  \/ PdfReturn

SpecSegment == Init /\ [][SegmentNext]_vars

PassagesWith(start, q) ==
  {i \in DOMAIN all_chunks :
     /\ all_chunks[i].batch = start
     /\ all_chunks[i].first <= q
     /\ q <= all_chunks[i].last}

\* characters two consecutive passages of one batch share
SharedLen(text, i) ==
  IF all_chunks[i].batch = all_chunks[i + 1].batch
    THEN SpanLen(text, all_chunks[i + 1].first, all_chunks[i].last)
    ELSE 0

\* a call on a single page batch whose chunk loop ran to its end
SingleBatchDone ==
  /\ ppc = "returned"
  /\ Len(batch_log) = 1
  /\ batch_log[1].kind = "ok"

\* C13 (as claimed): for a single-batch input the passages together contain
\* every part of the pages' text, and two consecutive passages overlap by
\* at most chunk_overlap characters.
C13_CoverWithoutGaps ==
  SingleBatchDone =>
    /\ \A q \in DOMAIN batch_log[1].text :
         ~batch_log[1].text[q].marker => PassagesWith(0, q) # {}
    /\ \A i \in 1..(Len(all_chunks) - 1) :
         SharedLen(batch_log[1].text, i) <= pcall.chunk_overlap

\* C13 (amended): for a single-batch input, a part of the batch text that
\* is in no passage lies only in chunks of the split shorter than 50
\* characters (they are discarded), and two consecutive passages overlap by
\* at most chunk_overlap characters.
C13_GapsOnlyInDiscardedShortChunks ==
  SingleBatchDone =>
    /\ \A q \in DOMAIN batch_log[1].text :
         PassagesWith(0, q) = {} =>
           /\ \E c \in DOMAIN batch_log[1].split :
                batch_log[1].split[c].first <= q /\ q <= batch_log[1].split[c].last
           /\ \A c \in DOMAIN batch_log[1].split :
                (batch_log[1].split[c].first <= q /\ q <= batch_log[1].split[c].last) =>
                  SpanLen(batch_log[1].text, batch_log[1].split[c].first,
                          batch_log[1].split[c].last) < MinChunkLen
    /\ \A i \in 1..(Len(all_chunks) - 1) :
         SharedLen(batch_log[1].text, i) <= pcall.chunk_overlap

\* a single batch with two passages that share text and a line of the
\* page that is in no passage
C13_Witness ==
  /\ SingleBatchDone
  /\ \E i \in 1..(Len(all_chunks) - 1) : SharedLen(batch_log[1].text, i) > 0
  /\ \E q \in DOMAIN batch_log[1].text :
       ~batch_log[1].text[q].marker /\ PassagesWith(0, q) = {}

\* chunks of a batch's split before position stop that are not discarded
EmittedBefore(entry) ==
  Cardinality({c \in DOMAIN entry.split :
                 /\ c < entry.stop
                 /\ SpanLen(entry.text, entry.split[c].first, entry.split[c].last)
                      >= MinChunkLen})

\* the page batches a call has to go through
BatchStarts ==
  {b \in 0..Len(pages) :
     b % PageBatchSize = 0 /\ b < PagesToProcess(Len(pages), pcall.large_file)}

\* C14: a page whose extraction raises, a batch without text, and a batch
\* whose splitting or chunk processing raises never abort the volume: the
\* page or batch is skipped, every passage already emitted is kept, every
\* later batch is processed, and process_pdf_text returns normally.
C14_FailuresSkipAndContinue ==
  /\ [](/\ ppc = "raised" => batch_log = <<>>
        /\ \A k \in DOMAIN batch_log :
             /\ batch_log[k].start = (k - 1) * PageBatchSize
             /\ Cardinality({i \in DOMAIN all_chunks : all_chunks[i].batch = batch_log[k].start})
                  = EmittedBefore(batch_log[k])
        /\ ppc = "returned" => Len(batch_log) = Cardinality(BatchStarts))
  /\ [][ppc = "loop" =>
          /\ ppc' \in {"loop", "returned"}
          /\ Len(all_chunks') >= Len(all_chunks)
          /\ SubSeq(all_chunks', 1, Len(all_chunks)) = all_chunks]_vars

\* first batch: a page raised and the third chunk raised after passages
\* were emitted; the second batch was still processed and emitted a passage
C14_Witness ==
  /\ ppc = "returned"
  /\ Len(batch_log) = 2
  /\ pages[1] = "raises"
  /\ batch_log[1].kind = "chunk_raised"
  /\ EmittedBefore(batch_log[1]) >= 1
  /\ batch_log[2].kind = "ok"
  /\ \E i \in DOMAIN all_chunks : all_chunks[i].batch = PageBatchSize


\* ------------------------------------------------------------------ split_arabic_english
MaxLines == 2
MaxScanLines == 50
MinTextLen == 10
MinLineLen == 3
PortionCap == 1000

\* A line is given by what its characters are: ar letters of U+0600..U+06FF,
\* ard other code points of U+0600..U+06FF (digits, marks, punctuation),
\* la letters outside that range, ot other visible characters, pad leading
\* or trailing blanks.
Line(ar, ard, la, ot, pad) == [ar |-> ar, ard |-> ard, la |-> la, ot |-> ot, pad |-> pad]

LineKinds ==
  [ar : {0, 3}, ard : {0, 1}, la : {0, 7}, ot : {0}, pad : {0}]
    \cup {Line(0, 0, 0, 2, 0), Line(0, 0, 600, 0, 0), Line(0, 0, 20, 0, 2), Line(0, 0, 0, 0, 2)}

\* the line every text of the family below begins with
FamilyLine == Line(0, 0, 7, 0, 0)

\* len(line)
LineLen(line) == line.ar + line.ard + line.la + line.ot + line.pad

\* len(line.strip())
StrippedLen(line) == line.ar + line.ard + line.la + line.ot

\* line.strip()
StripLine(line) == [line EXCEPT !.pad = 0]

\* sum of f[a..b], by halves
RECURSIVE SumRange(_, _, _)
SumRange(f, a, b) ==
  IF a > b THEN 0
  ELSE IF a = b THEN f[a]
  ELSE SumRange(f, a, (a + b) \div 2) + SumRange(f, (a + b) \div 2 + 1, b)

\* len(text): the lines and the newlines between them
LinesLen(lines) ==
  IF lines = <<>> THEN 0
  ELSE SumRange([k \in DOMAIN lines |-> LineLen(lines[k])], 1, Len(lines)) + Len(lines) - 1

\* sum(1 for char in line if U+0600 <= char <= U+06FF)
ArabicCount(line) == line.ar + line.ard

\* len([c for c in line if c.isalpha()])
AlphaCount(line) == line.ar + line.la

\* mutant: a ratio of exactly 0.3 counts as Arabic
IsArabicLine_AtLeast(line) ==
  AlphaCount(line) > 0 /\ 10 * ArabicCount(line) >= 3 * AlphaCount(line)

\* total_chars > 0 and arabic_count / total_chars > 0.3
IsArabicLine(line) ==
  AlphaCount(line) > 0 /\ 10 * ArabicCount(line) > 3 * AlphaCount(line)

\* mutant: lines under 11 characters are skipped
SkipLine_Under11(line) == StrippedLen(line) < 11

\* if not line or len(line) < 3: continue
SkipLine(line) == StrippedLen(line) < MinLineLen

\* the loop over lines[:50], here over lines a..b of them (by halves): the
\* lines appended to arabic_text (want = TRUE) or to english_text
\* (want = FALSE), each with its position in the text
RECURSIVE Bucket(_, _, _, _)
Bucket(lines, a, b, want) ==
  IF a > b THEN <<>>
  ELSE IF a = b
    THEN (IF ~SkipLine(lines[a]) /\ IsArabicLine(lines[a]) = want
            THEN <<[pos |-> a, line |-> StripLine(lines[a]), keep |-> StrippedLen(lines[a])]>>
            ELSE <<>>)
    ELSE Bucket(lines, a, (a + b) \div 2, want) \o Bucket(lines, (a + b) \div 2 + 1, b, want)

\* where output line j of a portion starts in the joined string
StartOf(portion, j) ==
  SumRange([i \in DOMAIN portion |-> portion[i].keep + 1], 1, j - 1)

\* portion.strip()[:1000]
Capped(portion) ==
  LET kept == Cardinality({j \in DOMAIN portion : StartOf(portion, j) < PortionCap})
  IN [j \in 1..kept |->
        [portion[j] EXCEPT !.keep = Min(portion[j].keep, PortionCap - StartOf(portion, j))]]

\* mutant: a short text gives two empty strings
ShortTextResult_Empty(lines) == [raw |-> TRUE, arabic |-> <<>>, english |-> <<>>]

\* return "", text
ShortTextResult(lines) ==
  [raw |-> TRUE, arabic |-> <<>>,
   english |-> IF LinesLen(lines) = 0 THEN <<>>
               ELSE [k \in DOMAIN lines |->
                       [pos |-> k, line |-> lines[k], keep |-> LineLen(lines[k])]]]

SplitArabicEnglish(lines) ==
  IF LinesLen(lines) = 0 \/ LinesLen(lines) < MinTextLen
    THEN ShortTextResult(lines)
    ELSE [raw |-> FALSE,
          arabic |-> Capped(Bucket(lines, 1, Min(Len(lines), MaxScanLines), TRUE)),
          english |-> Capped(Bucket(lines, 1, Min(Len(lines), MaxScanLines), FALSE))]

\* the texts handed in: 0 or 49 copies of one line, then up to MaxLines lines
ClassifierTexts ==
  UNION {{[k \in 1..m |-> FamilyLine] \o ls : ls \in [1..n -> LineKinds]} :
           <<m, n>> \in {0, MaxScanLines - 1} \X (1..MaxLines)}

\* split_arabic_english(text) is called
ClassifierCall ==
  /\ lpc = "idle"
  /\ \E t \in ClassifierTexts : ltext' = t
  /\ lresult' = <<>>
  /\ lpc' = "called"
  /\ UNCHANGED <<db_conn, qvars, rvars, ivars, cvars, evars, svars, xvars, ovars>>

\* it returns its pair
ClassifierReturn ==
  /\ lpc = "called"
  /\ lresult' = SplitArabicEnglish(ltext)
  /\ lpc' = "returned"
  /\ UNCHANGED ltext
  /\ UNCHANGED <<db_conn, qvars, rvars, ivars, cvars, evars, svars, xvars, ovars>>

ClassifierNext ==
  \/ ClassifierCall
  \/ ClassifierReturn

SpecClassifier == Init /\ [][ClassifierNext]_vars


\* ------------------------------------------------------------------ claims: split_arabic_english
\* the output lines of a portion that reproduce input line k whole
WholeIn(portion, k) ==
  {j \in DOMAIN portion :
     /\ portion[j].pos = k
     /\ portion[j].line = StripLine(ltext[k])
     /\ portion[j].keep = StrippedLen(ltext[k])}

\* how often input line k appears whole in the two outputs
Appearances(k) ==
  Cardinality(WholeIn(lresult.arabic, k)) + Cardinality(WholeIn(lresult.english, k))

\* every output line is an input line that is not empty, kept whole
OutputsAreInputLines ==
  \A portion \in {lresult.arabic, lresult.english} :
    \A j \in DOMAIN portion :
      /\ portion[j].pos \in DOMAIN ltext
      /\ StrippedLen(ltext[portion[j].pos]) > 0
      /\ j \in WholeIn(portion, portion[j].pos)

\* len() of a returned portion
PortionLen(portion) ==
  IF portion = <<>> THEN 0
  ELSE StartOf(portion, Len(portion)) + portion[Len(portion)].keep

C17_ShortTextGivesTwoEmptyStrings ==
  (lpc = "returned" /\ LinesLen(ltext) < MinTextLen) =>
    /\ PortionLen(lresult.arabic) = 0
    /\ PortionLen(lresult.english) = 0

\* C17 (amended): an empty text gives two empty strings; a non-empty text
\* shorter than 10 characters gives an empty Arabic portion and the text
\* itself, unchanged, as the English portion.
C17_ShortTextIsReturnedAsEnglish ==
  (lpc = "returned" /\ LinesLen(ltext) < MinTextLen) =>
    /\ lresult.arabic = <<>>
    /\ PortionLen(lresult.english) = LinesLen(ltext)
    /\ LinesLen(ltext) > 0 =>
         /\ Len(lresult.english) = Len(ltext)
         /\ \A k \in DOMAIN ltext :
              lresult.english[k].line = ltext[k] /\ lresult.english[k].keep = LineLen(ltext[k])

\* a text of four Arabic characters comes back as the English portion
C17_Witness ==
  /\ lpc = "returned"
  /\ ltext = <<Line(3, 1, 0, 0, 0)>>
  /\ lresult.arabic = <<>>
  /\ PortionLen(lresult.english) = 4


\* ------------------------------------------------------------------ reference extraction: texts
\* A text of the extractors is a sequence of tokens joined by single blanks.
\* A token is a word (w), a number (its digits d, with a leading '#' when
\* hash), or the piece of a word a cut left over (w = "~"); len is its
\* number of characters.
XWordLen(w) ==
  CASE w \in {"Chapter", "chapter", "section"} -> 7
    [] w \in {"Hadith", "hadith", "Volume", "volume"} -> 6
    [] w \in {"tradition", "narration", "Al-Anwaar", "al-anwaar"} -> 9
    [] w \in {"Contents", "contents", "narrated"} -> 8
    [] w \in {"March", "march", "Table", "table", "index", "Bihar", "bihar", "AR_albab"} -> 5
    [] w \in {"Page", "page", "said", "book", "AR_hadith"} -> 4
    [] w \in {"bab", "Ch.", "ch.", "the", "no.", "AR_bab"} -> 3
    [] w \in {"of", "AR_an"} -> 2
    [] w \in {"-", ".", ":"} -> 1
    [] w = "www.hubeali.com" -> 15
    [] w = "filler300" -> 300
    [] w = "filler490" -> 490
    [] w = "filler500" -> 500
    [] OTHER -> 1

Word(w) == [w |-> w, d |-> <<>>, hash |-> FALSE, len |-> XWordLen(w)]
Num(d) == [w |-> "", d |-> d, hash |-> FALSE, len |-> Len(d)]
HashNum(d) == [w |-> "", d |-> d, hash |-> TRUE, len |-> Len(d) + 1]
Fragment(n) == [w |-> "~", d |-> <<>>, hash |-> FALSE, len |-> n]

IsNum(tok) == tok.d # <<>>

\* int(digits)
RECURSIVE NumVal(_)
NumVal(d) == IF d = <<>> THEN 0 ELSE 10 * NumVal(SubSeq(d, 1, Len(d) - 1)) + d[Len(d)]

\* str.lower() of a word
XLowerWord(w) ==
  CASE w = "Chapter" -> "chapter"
    [] w = "Hadith" -> "hadith"
    [] w = "March" -> "march"
    [] w = "Ch." -> "ch."
    [] w = "Table" -> "table"
    [] w = "Contents" -> "contents"
    [] w = "Page" -> "page"
    [] w = "Volume" -> "volume"
    [] w = "Bihar" -> "bihar"
    [] w = "Al-Anwaar" -> "al-anwaar"
    [] OTHER -> w

\* text.lower()
XLower(text) == [i \in DOMAIN text |-> [text[i] EXCEPT !.w = XLowerWord(text[i].w)]]

\* index of the first character of token i
RECURSIVE XOff(_, _)
XOff(text, i) == IF i = 1 THEN 0 ELSE XOff(text, i - 1) + text[i - 1].len + 1

\* index after the last character of token i
XEnd(text, i) == XOff(text, i) + text[i].len

\* len(text)
XTextLen(text) == IF text = <<>> THEN 0 ELSE XEnd(text, Len(text))

\* token i of text[:n], for a token that begins before n: whole, or cut
CutToken(tok, room) ==
  IF tok.len <= room THEN tok
  ELSE IF IsNum(tok) /\ room > (IF tok.hash THEN 1 ELSE 0)
    THEN [tok EXCEPT !.d = SubSeq(tok.d, 1, room - (IF tok.hash THEN 1 ELSE 0)),
                     !.len = room]
    ELSE Fragment(room)

\* text[:n]
Sample(text, n) ==
  LET kept == {i \in DOMAIN text : XOff(text, i) < n}
  IN [i \in 1..Cardinality(kept) |-> CutToken(text[i], n - XOff(text, i))]


\* ------------------------------------------------------------------ reference extraction: patterns
\* How many characters at the end of the (lower-cased) word w the head of a
\* pattern matches, 0 if it does not match there.  "ch_opt" is
\* ch(?:apter)?\.?, "ch" is ch\.?, "h" is h\.?; the AR_ heads are the Arabic
\* words bab, al-bab, hadith.
HeadLen(head, w) ==
  CASE head = "chapter" /\ w = "chapter" -> 7
    [] head = "ch_opt" /\ w = "chapter" -> 7
    [] head \in {"ch_opt", "ch"} /\ w = "ch." -> 3
    [] head \in {"ch_opt", "ch"} /\ w = "march" -> 2
    [] head = "bab" /\ w = "bab" -> 3
    [] head = "AR_bab" /\ w \in {"AR_bab", "AR_albab"} -> 3
    [] head = "AR_albab" /\ w = "AR_albab" -> 5
    [] head = "section" /\ w = "section" -> 7
    [] head = "book" /\ w = "book" -> 4
    [] head = "hadith" /\ w = "hadith" -> 6
    [] head = "tradition" /\ w = "tradition" -> 9
    [] head = "narration" /\ w = "narration" -> 9
    [] head = "h" /\ w \in {"hadith", "march"} -> 1
    [] head = "h" /\ w = "ch." -> 2
    [] head = "AR_hadith" /\ w = "AR_hadith" -> 4
    [] head = "AR_an" /\ w = "AR_an" -> 2
    [] OTHER -> 0

Max(a, b) == IF a > b THEN a ELSE b

RECURSIVE MaxOver(_, _)
MaxOver(heads, w) ==
  IF heads = {} THEN 0
  ELSE LET h == CHOOSE x \in heads : TRUE
       IN Max(HeadLen(h, w), MaxOver(heads \ {h}, w))

\* the longest match of an alternation of heads at the end of token i
HeadAt(text, i, heads) ==
  IF i \in DOMAIN text /\ text[i].w # "" THEN MaxOver(heads, text[i].w) ELSE 0

IsPunct(text, i, marks) == i \in DOMAIN text /\ text[i].w \in marks

IsNumAt(text, i, hash_ok) ==
  i \in DOMAIN text /\ IsNum(text[i]) /\ (text[i].hash => hash_ok)

\* A pattern is a record: kind tells its shape, heads the words it looks
\* for, marks the punctuation it allows, hash whether '#' may precede the
\* number.
\*   head_num        head \s+ #? (\d+)
\*   head_marks_num  head \s* [marks]* \s* (\d+)
\*   head_no_num     head \s+ no\.? \s* (\d+)
\*   head_num_marks  head \s+ (\d+) \s* [marks]
\*   num_marks_head  (\d+) \s* [marks] \s* (?:the\s+)? head
\*   line_num_head   ^\s* (\d+) \s* [marks] \s* head
\*   line_num_said   ^\s* (\d+) \s* [marks] \s* [A-Z][a-z]+ .* (?:said|narrated)
Pattern(kind, heads, marks, hash) ==
  [kind |-> kind, heads |-> heads, marks |-> marks, hash |-> hash]

AsciiWords ==
  {"chapter", "hadith", "march", "ch.", "table", "contents", "page", "volume", "bihar",
   "al-anwaar", "section", "tradition", "narration", "narrated", "index", "said", "book",
   "bab", "the", "no.", "of", "filler300", "filler490", "filler500"}

SaidWords == {"said", "narrated"}

\* the match of a pattern that begins in token i, if there is one
MatchAt(text, pat, i) ==
  LET m(start, end, j) == {[start |-> start, end |-> end, num |-> text[j].d, at |-> i]}
      head == HeadAt(text, i, pat.heads)
  IN CASE pat.kind = "head_num" ->
            IF head > 0 /\ IsNumAt(text, i + 1, pat.hash)
              THEN m(XEnd(text, i) - head, XEnd(text, i + 1), i + 1) ELSE {}
       [] pat.kind = "head_marks_num" ->
            IF head > 0 /\ IsNumAt(text, i + 1, pat.hash)
              THEN m(XEnd(text, i) - head, XEnd(text, i + 1), i + 1)
            ELSE IF head > 0 /\ IsPunct(text, i + 1, pat.marks) /\ IsNumAt(text, i + 2, FALSE)
              THEN m(XEnd(text, i) - head, XEnd(text, i + 2), i + 2) ELSE {}
       [] pat.kind = "head_no_num" ->
            IF head > 0 /\ IsPunct(text, i + 1, {"no."}) /\ IsNumAt(text, i + 2, FALSE)
              THEN m(XEnd(text, i) - head, XEnd(text, i + 2), i + 2) ELSE {}
       [] pat.kind = "head_num_marks" ->
            IF head > 0 /\ IsNumAt(text, i + 1, FALSE) /\ IsPunct(text, i + 2, pat.marks)
              THEN m(XEnd(text, i) - head, XEnd(text, i + 2), i + 1) ELSE {}
       [] pat.kind = "num_marks_head" ->
            IF IsNumAt(text, i, TRUE) /\ IsPunct(text, i + 1, pat.marks)
              THEN LET start == XOff(text, i) + (IF text[i].hash THEN 1 ELSE 0)
                       j == IF IsPunct(text, i + 2, {"the"}) THEN i + 3 ELSE i + 2
                   IN IF HeadAt(text, j, pat.heads) > 0
                        THEN m(start, XOff(text, j) + HeadAt(text, j, pat.heads), i) ELSE {}
              ELSE {}
       [] pat.kind = "line_num_head" ->
            IF i = 1 /\ IsNumAt(text, 1, FALSE) /\ IsPunct(text, 2, pat.marks)
                 /\ HeadAt(text, 3, pat.heads) > 0
              THEN m(0, XOff(text, 3) + HeadAt(text, 3, pat.heads), 1) ELSE {}
       [] pat.kind = "line_num_said" ->
            IF i = 1 /\ IsNumAt(text, 1, FALSE) /\ IsPunct(text, 2, pat.marks)
                 /\ 3 \in DOMAIN text /\ text[3].w \in AsciiWords
                 /\ \E j \in 4..Len(text) : text[j].w \in SaidWords
              THEN LET last == CHOOSE j \in 4..Len(text) :
                                 /\ text[j].w \in SaidWords
                                 /\ \A k \in (j + 1)..Len(text) : text[k].w \notin SaidWords
                   IN m(0, XEnd(text, last), 1)
              ELSE {}
       [] OTHER -> {}

\* re.finditer(pattern, text): the matches from left to right
Matches(text, pat) ==
  LET idx == {i \in DOMAIN text : MatchAt(text, pat, i) # {}}
  IN [j \in 1..Cardinality(idx) |->
        LET i == CHOOSE x \in idx : Cardinality({k \in idx : k < x}) = j - 1
        IN CHOOSE mt \in MatchAt(text, pat, i) : TRUE]


\* ------------------------------------------------------------------ extract_hadith_metadata
SampleLen == 500

\* None as the value of a chapter or hadith_number: no digits
NoRef == <<>>

\* chapter_patterns of extract_hadith_metadata
ChapterPatterns ==
  << Pattern("head_num", {"chapter"}, {}, FALSE),
     Pattern("head_num", {"bab"}, {}, FALSE),
     Pattern("head_num", {"AR_bab"}, {}, FALSE),
     Pattern("head_num", {"ch_opt"}, {}, FALSE) >>

\* hadith_patterns of extract_hadith_metadata
HadithPatterns ==
  << Pattern("head_num", {"hadith"}, {}, TRUE),
     Pattern("head_num", {"tradition"}, {}, TRUE),
     Pattern("head_num", {"h"}, {}, FALSE),
     Pattern("head_num", {"AR_hadith"}, {}, FALSE) >>

\* mutant: the last occurrence of the pattern is taken
FirstMatch_LastOccurrence(sample, patterns) ==
  LET hits == {k \in DOMAIN patterns : Matches(sample, patterns[k]) # <<>>}
  IN IF hits = {} THEN NoRef
     ELSE LET ms == Matches(sample, patterns[CHOOSE k \in hits : \A j \in hits : k <= j])
          IN ms[Len(ms)].num

\* for pattern in patterns: match = re.search(pattern, text_sample);
\* if match: take match.group(1) and break
FirstMatch(sample, patterns) ==
  LET hits == {k \in DOMAIN patterns : Matches(sample, patterns[k]) # <<>>}
  IN IF hits = {} THEN NoRef
     ELSE Matches(sample, patterns[CHOOSE k \in hits : \A j \in hits : k <= j])[1].num

ExtractHadithMetadata(text, volume_num) ==
  LET text_sample == XLower(Sample(text, SampleLen))
  IN [volume |-> volume_num,
      chapter |-> FirstMatch(text_sample, ChapterPatterns),
      hadith_number |-> FirstMatch(text_sample, HadithPatterns)]


\* ------------------------------------------------------------------ MetadataExtractor
MinAdvancedLen == 20
HadithSampleLen == 300
ChapterContext == 20
HadithContext == 30
MaxChapter == 200
MaxHadith == 10000
MaxContextHadith == 1000

\* self.chapter_patterns
AdvancedChapterPatterns ==
  << Pattern("head_num", {"chapter"}, {}, FALSE),
     Pattern("head_num", {"ch"}, {}, FALSE),
     Pattern("head_num", {"section"}, {}, FALSE),
     Pattern("head_num", {"AR_bab"}, {}, FALSE),
     Pattern("head_num", {"AR_albab"}, {}, FALSE),
     Pattern("head_num", {"AR_fasl"}, {}, FALSE),
     Pattern("head_marks_num", {"chapter", "ch", "AR_bab", "AR_albab"}, {"-", ":"}, FALSE),
     Pattern("num_marks_head", {"chapter", "book", "AR_bab"}, {"-", "."}, FALSE),
     Pattern("head_num_marks", {"chapter"}, {"-", ":"}, FALSE) >>

\* self.hadith_patterns
AdvancedHadithPatterns ==
  << Pattern("head_num", {"hadith"}, {}, TRUE),
     Pattern("head_num", {"tradition"}, {}, TRUE),
     Pattern("head_num", {"narration"}, {}, TRUE),
     Pattern("head_num", {"h"}, {}, FALSE),
     Pattern("head_no_num", {"tradition"}, {}, FALSE),
     Pattern("head_num", {"AR_hadith"}, {}, FALSE),
     Pattern("head_num", {"AR_riwaya"}, {}, FALSE),
     Pattern("head_num", {"AR_khabar"}, {}, FALSE),
     Pattern("head_marks_num", {"hadith", "tradition", "AR_hadith", "AR_riwaya"}, {"-", ":"}, TRUE),
     Pattern("line_num_head", {"AR_min", "AR_an", "AR_qala"}, {"-", "."}, FALSE),
     Pattern("line_num_said", {}, {"-", "."}, FALSE) >>

\* tokens i..j lie inside the characters lo..hi-1 of the text
Inside(text, i, j, lo, hi) ==
  /\ i \in DOMAIN text
  /\ j \in DOMAIN text
  /\ XOff(text, i) >= lo
  /\ XEnd(text, j) <= hi

\* word followed by at least one digit, inside lo..hi-1
WordDigitInside(text, w, lo, hi) ==
  \E i \in DOMAIN text :
    /\ text[i].w = w
    /\ IsNumAt(text, i + 1, FALSE)
    /\ XOff(text, i) >= lo
    /\ XOff(text, i + 1) + 1 <= hi

\* any(re.search(excl, context) for excl in self.exclusion_patterns)
ExcludedContext(text, lo, hi) ==
  \/ WordDigitInside(text, "page", lo, hi)
  \/ WordDigitInside(text, "volume", lo, hi)
  \/ \E i \in DOMAIN text :
       \/ text[i].w \in {"www.hubeali.com", "index", "AR_fihrist"} /\ Inside(text, i, i, lo, hi)
       \/ /\ text[i].w = "bihar"
          /\ Inside(text, i, i + 1, lo, hi)
          /\ text[i + 1].w = "al-anwaar"
       \/ /\ text[i].w = "table"
          /\ Inside(text, i, i + 2, lo, hi)
          /\ text[i + 1].w = "of"
          /\ text[i + 2].w = "contents"

\* any(invalid in context for invalid in invalid_contexts)
InvalidContext(text, lo, hi) ==
  \E i \in DOMAIN text :
    /\ text[i].w \in {"page", "volume", "year", "AR_safha", "AR_mujallad"}
    /\ Inside(text, i, i, lo, hi)

\* the run of tokens a cleaning pattern removes at token i; 0 if none
CleanRun(text, i) ==
  LET lw(k) == IF k \in DOMAIN text THEN XLowerWord(text[k].w) ELSE ""
  IN IF lw(i) = "www.hubeali.com" THEN 1
     ELSE IF lw(i) = "bihar" /\ lw(i + 1) = "al-anwaar" /\ lw(i + 2) = "volume"
               /\ IsNumAt(text, i + 3, FALSE) THEN 4
     ELSE IF lw(i) = "page" /\ IsNumAt(text, i + 1, FALSE) /\ lw(i + 2) = "of"
               /\ IsNumAt(text, i + 3, FALSE) THEN 4
     ELSE 0

\* _clean_text_for_extraction
RECURSIVE CleanFrom(_, _)
CleanFrom(text, i) ==
  IF i > Len(text) THEN <<>>
  ELSE IF CleanRun(text, i) > 0 THEN CleanFrom(text, i + CleanRun(text, i))
  ELSE <<text[i]>> \o CleanFrom(text, i + 1)

CleanTextForExtraction(text) == CleanFrom(text, 1)

\* num.isdigit() and 1 <= int(num) <= bound
InBound(d, bound) == 1 <= NumVal(d) /\ NumVal(d) <= bound

\* the first acceptable match over the patterns in order and, within a
\* pattern, the matches from left to right; ok[k][j] says whether match j
\* of pattern k is acceptable
FirstAccepted(sample, patterns, ok) ==
  LET hits == {<<k, j>> \in (DOMAIN patterns) \X (1..Len(sample)) :
                 j \in DOMAIN Matches(sample, patterns[k]) /\ ok[k][j]}
  IN IF hits = {} THEN NoRef
     ELSE LET first == CHOOSE h \in hits :
                         \A g \in hits : h[1] < g[1] \/ (h[1] = g[1] /\ h[2] <= g[2])
          IN Matches(sample, patterns[first[1]])[first[2]].num

\* _extract_chapter_advanced
ExtractChapterAdvanced(text) ==
  LET text_sample == XLower(Sample(text, SampleLen))
      ok == [k \in DOMAIN AdvancedChapterPatterns |->
               [j \in DOMAIN Matches(text_sample, AdvancedChapterPatterns[k]) |->
                  LET mt == Matches(text_sample, AdvancedChapterPatterns[k])[j]
                  IN /\ InBound(mt.num, MaxChapter)
                     /\ ~ExcludedContext(text_sample, Max(0, mt.start - ChapterContext),
                                         mt.end + ChapterContext)]]
  IN FirstAccepted(text_sample, AdvancedChapterPatterns, ok)

\* _extract_hadith_advanced
ExtractHadithAdvanced(text) ==
  LET text_sample == XLower(Sample(text, HadithSampleLen))
      ok == [k \in DOMAIN AdvancedHadithPatterns |->
               [j \in DOMAIN Matches(text_sample, AdvancedHadithPatterns[k]) |->
                  LET mt == Matches(text_sample, AdvancedHadithPatterns[k])[j]
                  IN /\ InBound(mt.num, MaxHadith)
                     /\ ~InvalidContext(text_sample, Max(0, mt.start - HadithContext),
                                        mt.end + HadithContext)]]
  IN FirstAccepted(text_sample, AdvancedHadithPatterns, ok)


\* 'table of contents' in text.lower() or the Arabic word for it in text
MentionsToc(text) ==
  \E i \in DOMAIN text :
    \/ text[i].w = "AR_fihrist"
    \/ /\ i + 2 \in DOMAIN text
       /\ XLowerWord(text[i].w) = "table"
       /\ XLowerWord(text[i + 1].w) = "of"
       /\ XLowerWord(text[i + 2].w) = "contents"

\* _extract_from_toc: re.search(r'chapter\s+(\d+)\s*[-...]', line, re.IGNORECASE)
ExtractFromToc(text) ==
  LET ms == Matches(XLower(text), Pattern("head_num_marks", {"chapter"}, {"-"}, FALSE))
  IN IF ms = <<>> THEN NoRef ELSE ms[1].num

IndicatorWords == {"said", "narrated", "reported", "AR_qala", "AR_an", "AR_haddathana"}

\* _extract_from_context on the cleaned text, which is one line
ExtractFromContext(text) ==
  [chapter |-> IF MentionsToc(text) THEN ExtractFromToc(text) ELSE NoRef,
   hadith |-> IF /\ IsNumAt(text, 1, FALSE)
                 /\ IsPunct(text, 2, {"-", "."})
                 /\ \E i \in DOMAIN text : XLowerWord(text[i].w) \in IndicatorWords
                 /\ 1 <= NumVal(text[1].d)
                 /\ NumVal(text[1].d) <= MaxContextHadith
                THEN text[1].d ELSE NoRef]

\* mutant: a field filled by the context pass adds nothing to the confidence
AdvancedMetadata_FillAddsNothing(volume_num, chapter, hadith, context_data) ==
  LET fill_chapter == context_data.chapter # NoRef /\ chapter = NoRef
      fill_hadith == context_data.hadith # NoRef /\ hadith = NoRef
  IN [volume |-> volume_num,
      chapter |-> IF fill_chapter THEN context_data.chapter ELSE chapter,
      hadith_number |-> IF fill_hadith THEN context_data.hadith ELSE hadith,
      confidence |-> (IF chapter # NoRef THEN 4 ELSE 0) + (IF hadith # NoRef THEN 4 ELSE 0)]

\* metadata.update(...) of extract_metadata_advanced: the pattern results,
\* filled from the context where they are missing; confidence in tenths
AdvancedMetadata(volume_num, chapter, hadith, context_data) ==
  LET fill_chapter == context_data.chapter # NoRef /\ chapter = NoRef
      fill_hadith == context_data.hadith # NoRef /\ hadith = NoRef
  IN [volume |-> volume_num,
      chapter |-> IF fill_chapter THEN context_data.chapter ELSE chapter,
      hadith_number |-> IF fill_hadith THEN context_data.hadith ELSE hadith,
      confidence |-> (IF chapter # NoRef THEN 4 ELSE 0) + (IF hadith # NoRef THEN 4 ELSE 0)
                     + (IF fill_chapter THEN 2 ELSE 0) + (IF fill_hadith THEN 2 ELSE 0)]

\* the three extractions of extract_metadata_advanced on the cleaned text
ExtractFromCleanText(clean_text, volume_num) ==
  AdvancedMetadata(volume_num, ExtractChapterAdvanced(clean_text),
                   ExtractHadithAdvanced(clean_text), ExtractFromContext(clean_text))

\* extract_metadata_advanced
ExtractMetadataAdvanced(text, volume_num) ==
  IF XTextLen(text) < MinAdvancedLen
    THEN [volume |-> volume_num, chapter |-> NoRef, hadith_number |-> NoRef, confidence |-> 0]
    ELSE ExtractFromCleanText(CleanTextForExtraction(text), volume_num)

\* ------------------------------------------------------------------ reference extraction: calls
MaxPhrases == 2

Phrases ==
  { <<Word("Chapter"), Num(<<5>>)>>,
    <<Word("Chapter"), Num(<<5, 5>>)>>,
    <<Word("Chapter"), Num(<<1, 2>>)>>,
    <<Word("Chapter"), Num(<<9, 9, 9>>), Word("-")>>,
    <<Word("bab"), Num(<<3>>)>>,
    <<Word("March"), Num(<<5>>)>>,
    <<Word("Hadith"), HashNum(<<1, 2>>)>>,
    <<Word("Hadith"), HashNum(<<1, 2, 0>>)>>,
    <<Word("Hadith"), HashNum(<<9, 9, 9, 9, 9>>)>>,
    <<Word("tradition"), Num(<<3>>)>>,
    <<Word("Page"), Num(<<3>>), Word("of"), Num(<<1, 2>>)>>,
    <<Word("Table"), Word("of"), Word("Contents")>>,
    <<Word("index")>>,
    <<Word("Volume"), Num(<<7>>)>>,
    <<Num(<<2, 0, 0, 0>>), Word("-"), Word("said")>>,
    <<Word("filler300")>> }

Prefixes == {<<>>, <<Word("filler490")>>, <<Word("filler500")>>}

RECURSIVE Concat(_)
Concat(ps) == IF ps = <<>> THEN <<>> ELSE Head(ps) \o Concat(Tail(ps))

\* the texts handed to the extractors
XTexts ==
  UNION {{pre \o Concat(ps) : ps \in [1..n -> Phrases]} :
           <<pre, n>> \in Prefixes \X (1..MaxPhrases)}

\* a chunk text reaches the extractors
ExtractCall ==
  /\ xpc = "idle"
  /\ \E t \in XTexts : xtext' = t
  /\ xmeta' = <<>>
  /\ xadvanced' = <<>>
  /\ xpc' = "called"
  /\ UNCHANGED <<db_conn, qvars, rvars, ivars, cvars, evars, svars, lvars, ovars>>

\* metadata = extract_hadith_metadata(chunk, volume_num), in process_pdf_text
RunExtractHadithMetadata ==
  /\ xpc = "called"
  /\ xmeta' = ExtractHadithMetadata(xtext, 7)
  /\ xpc' = "extracted"
  /\ UNCHANGED <<xtext, xadvanced>>
  /\ UNCHANGED <<db_conn, qvars, rvars, ivars, cvars, evars, svars, lvars, ovars>>

\* MetadataExtractor().extract_metadata_advanced(text, volume_num) on the same text
RunExtractMetadataAdvanced ==
  /\ xpc = "extracted"
  /\ xadvanced' = ExtractMetadataAdvanced(xtext, 7)
  /\ xpc' = "done"
  /\ UNCHANGED <<xtext, xmeta>>
  /\ UNCHANGED <<db_conn, qvars, rvars, ivars, cvars, evars, svars, lvars, ovars>>

ExtractNext ==
  \/ ExtractCall
  \/ RunExtractHadithMetadata
  \/ RunExtractMetadataAdvanced

SpecExtract == Init /\ [][ExtractNext]_vars

\* ------------------------------------------------------------------ citations: calls
MetadataKeys == {"chapter", "hadith_number"}
ReferenceValues == {None, "5", "12"}

\* the metadata mappings of a candidate: each key missing, None or a number
Metadatas == UNION {[keys -> ReferenceValues] : keys \in SUBSET MetadataKeys}

\* the candidates a citation is built for
CiteChunks ==
  {[volume_number |-> v, metadata |-> md, english_text |-> en] :
     v \in {7, 8}, md \in Metadatas, en \in {"", "text"}}

\* a candidate reaches the loop of generate_answer_with_context
CiteCall ==
  /\ tpc = "idle"
  /\ \E c \in CiteChunks : tchunk' = c
  /\ tpc' = "called"
  /\ UNCHANGED <<tref, tsource>>
  /\ UNCHANGED <<db_conn, qvars, rvars, ivars, cvars, evars, svars, lvars, xvars, fvars, wvars, nvars>>

\* src/processing.py builds ref
CiteReference ==
  /\ tpc = "called"
  /\ tref' = Citation(tchunk)
  /\ tpc' = "cited"
  /\ UNCHANGED <<tchunk, tsource>>
  /\ UNCHANGED <<db_conn, qvars, rvars, ivars, cvars, evars, svars, lvars, xvars, fvars, wvars, nvars>>

\* src/main.py builds the header of the candidate's block
CiteSource ==
  /\ tpc = "cited"
  /\ tsource' = SourceHeader(tchunk)
  /\ tpc' = "done"
  /\ UNCHANGED <<tchunk, tref>>
  /\ UNCHANGED <<db_conn, qvars, rvars, ivars, cvars, evars, svars, lvars, xvars, fvars, wvars, nvars>>

CiteNext ==
  \/ CiteCall
  \/ CiteReference
  \/ CiteSource

SpecCite == Init /\ [][CiteNext]_vars

\* ------------------------------------------------------------------ metadata repair
MaxStored == 2
MinFixLen == 50
MinFixConfidence == 2       \* extracted['confidence'] > 0.2, in tenths

\* metadata['extraction_method'] of extract_metadata_advanced
ExtractionMethod(chapter, hadith, context_data) ==
  LET fill_chapter == context_data.chapter # NoRef /\ chapter = NoRef
      fill_hadith == context_data.hadith # NoRef /\ hadith = NoRef
      by_patterns == IF chapter # NoRef
                       THEN (IF hadith # NoRef THEN "both" ELSE "chapter_header")
                       ELSE (IF hadith # NoRef THEN "hadith_number" ELSE None)
      method == IF fill_chapter THEN "context" ELSE by_patterns
  IN IF ~fill_hadith THEN method
     ELSE IF method = None THEN "context"
     ELSE IF method = "context" THEN "context_context"
     ELSE "chapter_header_context"

ExtractionMethodOfCleanText(clean_text) ==
  ExtractionMethod(ExtractChapterAdvanced(clean_text), ExtractHadithAdvanced(clean_text),
                   ExtractFromContext(clean_text))

ExtractionMethodOf(text) ==
  IF XTextLen(text) < MinAdvancedLen THEN None
  ELSE ExtractionMethodOfCleanText(CleanTextForExtraction(text))

\* jsonb || jsonb: the keys of the right operand replace those of the left
JsonMerge(left, right) ==
  [k \in DOMAIN left \cup DOMAIN right |-> IF k \in DOMAIN right THEN right[k] ELSE left[k]]

\* the metadata process_pdf_text gives a chunk of a three-page file
ChunkMetadata(metadata) ==
  JsonMerge(metadata, [pages_processed |-> "1-3", total_pages |-> 3, file_size_mb |-> 1])

\* the row batch_insert_chunks inserts for a chunk
StoredRow(id, text, volume_num, metadata) ==
  [id |-> id, volume_number |-> volume_num, chunk_index |-> id - 1, full_text |-> text,
   chapter_name |-> metadata.chapter,
   hadith_number |-> metadata.hadith_number,
   metadata |-> metadata]

\* the texts of the stored passages
RepairTexts ==
  { <<Word("section"), Num(<<4>>), Word("filler300")>>,
    <<Word("section"), Num(<<4>>), Word("Hadith"), HashNum(<<9, 9, 9, 9, 9>>), Word("filler300")>>,
    <<Word("Hadith"), HashNum(<<1, 2>>), Word("filler300")>>,
    <<Word("Chapter"), Num(<<5>>), Word("Hadith"), HashNum(<<1, 2>>), Word("filler300")>>,
    <<Word("Volume"), Num(<<7>>), Word("Chapter"), Num(<<5>>), Word("filler300")>>,
    <<Word("Table"), Word("of"), Word("Contents"), Word("Chapter"), Num(<<9, 9, 9>>),
      Word("-"), Word("filler300")>>,
    <<Word("section"), Num(<<4>>)>> }

\* an ingestion run has stored the passages of volume 7
RepairStored ==
  /\ fpc = "idle"
  /\ \E n \in 1..MaxStored : \E ts \in [1..n -> RepairTexts] :
       /\ ftable' = [i \in 1..n |-> StoredRow(i, ts[i], 7, ChunkMetadata(ExtractHadithMetadata(ts[i], 7)))]
       /\ fview' = ftable'
       /\ fwritten' = [i \in 1..n |-> ftable'[i].metadata]
  /\ fpc' = "stored"
  /\ UNCHANGED <<fqueue, fextracted>>
  /\ UNCHANGED <<db_conn, qvars, rvars, ivars, cvars, evars, svars, lvars, xvars, tvars, wvars, nvars>>

\* SELECT ... WHERE (chapter_name IS NULL OR hadith_number IS NULL)
\*   AND LENGTH(full_text) > 50 ORDER BY chunk_index LIMIT limit_per_volume
RepairSelect ==
  /\ fpc = "stored"
  /\ fqueue' = SelectSeq([i \in DOMAIN fview |-> i], LAMBDA i :
                 /\ (fview[i].chapter_name = NoRef \/ fview[i].hadith_number = NoRef)
                 /\ XTextLen(fview[i].full_text) > MinFixLen)
  /\ fpc' = "fixing"
  /\ UNCHANGED <<ftable, fview, fwritten, fextracted>>
  /\ UNCHANGED <<db_conn, qvars, rvars, ivars, cvars, evars, svars, lvars, xvars, tvars, wvars, nvars>>

\* mutant: the repair sets the two columns and leaves the metadata alone
RepairedRow_ColumnsOnly(chunk, extracted) ==
  LET new_chapter == IF chunk.chapter_name = NoRef /\ extracted.chapter # NoRef
                       THEN extracted.chapter ELSE chunk.chapter_name
      new_hadith == IF chunk.hadith_number = NoRef /\ extracted.hadith_number # NoRef
                      THEN extracted.hadith_number ELSE chunk.hadith_number
  IN [chunk EXCEPT !.chapter_name = new_chapter, !.hadith_number = new_hadith]

\* the body of the loop after the extraction: the row after it
RepairedRow(chunk, extracted) ==
  LET new_chapter == IF chunk.chapter_name = NoRef /\ extracted.chapter # NoRef
                       THEN extracted.chapter ELSE chunk.chapter_name
      new_hadith == IF chunk.hadith_number = NoRef /\ extracted.hadith_number # NoRef
                      THEN extracted.hadith_number ELSE chunk.hadith_number
      update_needed == new_chapter # chunk.chapter_name \/ new_hadith # chunk.hadith_number
  IN IF extracted.confidence > MinFixConfidence /\ update_needed
       THEN [chunk EXCEPT !.chapter_name = new_chapter,
                          !.hadith_number = new_hadith,
                          !.metadata = JsonMerge(@, [chapter |-> extracted.chapter,
                                                     hadith_number |-> extracted.hadith_number,
                                                     extraction_method |-> extracted.extraction_method,
                                                     confidence |-> extracted.confidence,
                                                     fixed_metadata |-> TRUE])]
       ELSE chunk

\* extracted = extractor.extract_metadata_advanced(chunk['full_text'], ...)
RepairExtract ==
  /\ fpc = "fixing"
  /\ fqueue # <<>>
  /\ fextracted' = JsonMerge(ExtractMetadataAdvanced(fview[Head(fqueue)].full_text, 7),
                             [extraction_method |->
                                ExtractionMethodOf(fview[Head(fqueue)].full_text)])
  /\ fpc' = "extracted"
  /\ UNCHANGED <<ftable, fview, fwritten, fqueue>>
  /\ UNCHANGED <<db_conn, qvars, rvars, ivars, cvars, evars, svars, lvars, xvars, tvars, wvars, nvars>>

\* the rest of the loop body for that chunk: UPDATE bihar_chunks, or nothing
RepairChunk ==
  /\ fpc = "extracted"
  /\ fview' = [fview EXCEPT ![Head(fqueue)] = RepairedRow(@, fextracted)]
  /\ fqueue' = Tail(fqueue)
  /\ fpc' = "fixing"
  /\ UNCHANGED <<ftable, fwritten, fextracted>>
  /\ UNCHANGED <<db_conn, qvars, rvars, ivars, cvars, evars, svars, lvars, xvars, tvars, wvars, nvars>>

\* conn.commit() after the loop
RepairCommit ==
  /\ fpc = "fixing"
  /\ fqueue = <<>>
  /\ ftable' = fview
  /\ fpc' = "done"
  /\ UNCHANGED <<fview, fwritten, fqueue, fextracted>>
  /\ UNCHANGED <<db_conn, qvars, rvars, ivars, cvars, evars, svars, lvars, xvars, tvars, wvars, nvars>>

\* a statement of the loop raises: conn.rollback()
RepairRollback ==
  /\ fpc \in {"fixing", "extracted"}
  /\ fview' = ftable
  /\ fqueue' = <<>>
  /\ fpc' = "done"
  /\ UNCHANGED <<ftable, fwritten, fextracted>>
  /\ UNCHANGED <<db_conn, qvars, rvars, ivars, cvars, evars, svars, lvars, xvars, tvars, wvars, nvars>>

RepairNext ==
  \/ RepairStored
  \/ RepairSelect
  \/ RepairExtract
  \/ RepairChunk
  \/ RepairCommit
  \/ RepairRollback

SpecRepair == Init /\ [][RepairNext]_vars


\* ------------------------------------------------------------------ claims on the reference extraction
\* extract_hadith_metadata has returned for xtext
BasicDone == xpc \in {"extracted", "done"}

\* MetadataExtractor has returned for xtext as well
AdvancedDone == xpc = "done"

\* the text holds head, one blank and then digits that begin with d, all of
\* it within the first n characters; hash tells whether '#' precedes d
HoldsMarker(text, head, hash, d, n) ==
  \E i \in DOMAIN text :
    /\ i + 1 \in DOMAIN text
    /\ text[i].w = head
    /\ IsNum(text[i + 1])
    /\ text[i + 1].hash = hash
    /\ Len(text[i + 1].d) >= Len(d)
    /\ SubSeq(text[i + 1].d, 1, Len(d)) = d
    /\ XOff(text, i + 1) + Len(d) + (IF hash THEN 1 ELSE 0) <= n

\* the positions of the markers "chapter <digits>" in a lower-cased text
ChapterMarkers(text) ==
  {i \in DOMAIN text : text[i].w = "chapter" /\ IsNumAt(text, i + 1, FALSE)}

\* the digits of the first marker "chapter <digits>" of the lower-cased
\* first 500 characters of the text, NoRef if there is none
FirstChapterMarker(text) ==
  LET sample == XLower(Sample(text, SampleLen))
      at == ChapterMarkers(sample)
  IN IF at = {} THEN NoRef
     ELSE sample[(CHOOSE i \in at : \A j \in at : i <= j) + 1].d

HeaderWords == {"page", "volume", "index", "table", "bihar", "www.hubeali.com", "AR_fihrist"}

\* no page, volume, index or site header anywhere in the text
NoHeaders(text) == \A i \in DOMAIN text : XLowerWord(text[i].w) \notin HeaderWords

\* C18 as stated: every text that contains the marker "Chapter 5" within its
\* first 500 characters gets the chapter "5" from both extractors, whatever
\* else the text contains.
C18_ChapterFiveAlwaysFound ==
  (BasicDone /\ HoldsMarker(xtext, "Chapter", FALSE, <<5>>, SampleLen))
    => /\ xmeta.chapter = <<5>>
       /\ AdvancedDone => xadvanced.chapter = <<5>>

\* C18, amended: when the first marker "chapter <digits>" in the lower-cased
\* first 500 characters of the text is "chapter 5", extract_hadith_metadata
\* returns the chapter "5"; MetadataExtractor returns it too when the text
\* has at least 20 characters and no page, volume, index or site header.
C18_FirstChapterMarkerFiveIsFound ==
  (BasicDone /\ FirstChapterMarker(xtext) = <<5>>)
    => /\ xmeta.chapter = <<5>>
       /\ (AdvancedDone /\ XTextLen(xtext) >= MinAdvancedLen /\ NoHeaders(xtext))
            => xadvanced.chapter = <<5>>

\* "Chapter 5 Chapter 12": the first marker is taken by both extractors
C18_Witness ==
  /\ AdvancedDone
  /\ xtext = <<Word("Chapter"), Num(<<5>>), Word("Chapter"), Num(<<1, 2>>)>>
  /\ xmeta.chapter = <<5>>
  /\ xadvanced.chapter = <<5>>

\* every number of the text is the number of a marker "Hadith #99999"
OnlyHadith99999(text) ==
  /\ HoldsMarker(text, "Hadith", TRUE, <<9, 9, 9, 9, 9>>, XTextLen(text))
  /\ \A i \in DOMAIN text :
       IsNum(text[i]) => /\ text[i] = HashNum(<<9, 9, 9, 9, 9>>)
                         /\ i > 1
                         /\ text[i - 1].w = "Hadith"

\* C19 as stated: every text that contains "Hadith #12" gets the item "12",
\* and a text whose only item marker is "Hadith #99999" gets no item, from
\* both extractors.
C19_HadithTwelveFoundOutOfBoundDropped ==
  BasicDone
    => /\ HoldsMarker(xtext, "Hadith", TRUE, <<1, 2>>, XTextLen(xtext))
            => /\ xmeta.hadith_number = <<1, 2>>
               /\ AdvancedDone => xadvanced.hadith_number = <<1, 2>>
       /\ OnlyHadith99999(xtext)
            => /\ xmeta.hadith_number = NoRef
               /\ AdvancedDone => xadvanced.hadith_number = NoRef

\* a reference is absent or a number in 1..bound
RefWithin(d, bound) == d = NoRef \/ (1 <= NumVal(d) /\ NumVal(d) <= bound)

\* C20 as stated: every chapter either extractor returns is a number in
\* 1..200 and every item a number in 1..10000, on every extraction path.
C20_ReferencesWithinBounds ==
  /\ BasicDone => /\ RefWithin(xmeta.chapter, MaxChapter)
                  /\ RefWithin(xmeta.hadith_number, MaxHadith)
  /\ AdvancedDone => /\ RefWithin(xadvanced.chapter, MaxChapter)
                     /\ RefWithin(xadvanced.hadith_number, MaxHadith)

\* tenths of confidence a field contributes: 4 when a marker pattern found
\* it, 2 when only the context pass filled it, 0 when it is absent
FieldConfidence(by_pattern, value) ==
  IF by_pattern # NoRef THEN 4 ELSE IF value # NoRef THEN 2 ELSE 0

\* C21: extract_metadata_advanced returns a result for every text; its
\* confidence (in tenths) is 4 for each field a marker pattern found plus 2
\* for each field only the context pass filled, so it lies in 0..10; and it
\* is 0 exactly when chapter and hadith_number are both None.
C21_ConfidenceIsAdditiveAndZeroIffNothingFound ==
  AdvancedDone
    => LET clean_text == CleanTextForExtraction(xtext)
           long == XTextLen(xtext) >= MinAdvancedLen
           chapter == IF long THEN ExtractChapterAdvanced(clean_text) ELSE NoRef
           hadith == IF long THEN ExtractHadithAdvanced(clean_text) ELSE NoRef
       IN /\ DOMAIN xadvanced = {"volume", "chapter", "hadith_number", "confidence"}
          /\ xadvanced.confidence = FieldConfidence(chapter, xadvanced.chapter)
                                    + FieldConfidence(hadith, xadvanced.hadith_number)
          /\ xadvanced.confidence \in 0..10
          /\ xadvanced.confidence = 0
               <=> (xadvanced.chapter = NoRef /\ xadvanced.hadith_number = NoRef)

\* "Table of Contents Chapter 999 -": the chapter comes from the context
\* pass alone and the confidence is 0.2
C21_Witness ==
  /\ AdvancedDone
  /\ xtext = <<Word("Table"), Word("of"), Word("Contents"),
               Word("Chapter"), Num(<<9, 9, 9>>), Word("-")>>
  /\ xadvanced.chapter = <<9, 9, 9>>
  /\ xadvanced.hadith_number = NoRef
  /\ xadvanced.confidence = 2

\* the value of a reference of the candidate, None when the key is missing
ReferenceValue(chunk, key) == Get(chunk.metadata, key, None)

\* the citation the candidate should get: a part for each reference that is
\* there, nothing for one that is not
ExpectedCitation(chunk) ==
  <<"Bihar ul Anwar", "Volume", Str(chunk.volume_number)>>
    \o (IF ReferenceValue(chunk, "chapter") # None
          THEN <<"Chapter", ReferenceValue(chunk, "chapter")>> ELSE <<>>)
    \o (IF ReferenceValue(chunk, "hadith_number") # None
          THEN <<"Hadith", ReferenceValue(chunk, "hadith_number")>> ELSE <<>>)

\* C22 as stated: the citation of a candidate is 'Bihar ul Anwar, Volume V'
\* followed by ', Chapter C' only when it has a chapter and by ', Hadith I'
\* only when it has an item; nothing is printed for an absent reference, in
\* src/processing.py and in src/main.py.
C22_AbsentReferencesAreOmitted ==
  /\ tpc \in {"cited", "done"} => tref = ExpectedCitation(tchunk)
  /\ tpc = "done" => tsource = ExpectedCitation(tchunk)

\* C22 for src/processing.py alone
C22_ProcessingOmitsAbsentReferences ==
  tpc \in {"cited", "done"} => tref = ExpectedCitation(tchunk)

\* block i and citation i describe candidate i of the list, for every i
DescribesInOrder(asm, candidates) ==
  /\ Len(asm.context_parts) = Len(candidates)
  /\ Len(asm.reference_list) = Len(candidates)
  /\ \A i \in DOMAIN candidates :
       /\ asm.context_parts[i].excerpt = i
       /\ asm.context_parts[i].ref = Citation(candidates[i])
       /\ asm.context_parts[i].english = Excerpt(candidates[i].english_text, ExcerptLen)
       /\ asm.reference_list[i] = Citation(candidates[i])

\* C23 as stated: generate_answer_with_context builds one block and one
\* citation for each candidate of the ranked list it is given, in the order
\* of that list.
C23_OneBlockPerGivenCandidate ==
  (Filtered /\ qpc \in {"references", "done"}) => DescribesInOrder(assembled, chunks)

\* C23, amended: generate_answer_with_context builds one block and one
\* citation for each candidate of filter_relevant_chunks(chunks, query), in
\* the order of that list; when that list is empty it builds none.
C23_OneBlockPerFilteredCandidate ==
  (Filtered /\ qpc \in {"references", "done"}) => DescribesInOrder(assembled, filtered_chunks)

\* two candidates were given, the filter moved the second before the first,
\* and the blocks follow the filter's order
C23_Witness ==
  /\ Filtered
  /\ qpc = "done"
  /\ Len(chunks) = 2
  /\ Len(filtered_chunks) = 2
  /\ filtered_chunks[1].id = chunks[2].id
  /\ filtered_chunks[1].english_text # filtered_chunks[2].english_text
  /\ Len(assembled.context_parts) = 2

\* C30 as stated: in a successful /query response the references and
\* total_sources describe exactly the candidates whose excerpts were given
\* to the generation collaborator: the same candidates, the same count and
\* the same order as the blocks of the prompt.
C30_ReferencesAreTheExcerptsOfThePrompt ==
  (qpc = "done" /\ response.success)
    => /\ response.total_sources = Len(assembled.context_parts)
       /\ Len(response.references) = Len(assembled.context_parts)
       /\ response.references = [i \in DOMAIN filtered_chunks |-> ReferenceOf(filtered_chunks[i])]

\* the candidate is a row of bihar_chunks as the search read it, but for
\* the two transient keys
AsStored(c) ==
  \E id \in RowIds : [c EXCEPT !.content_priority = 0, !.relevance_score = 0] = Rows[id]

\* every candidate of the list is as stored
AllAsStored(candidates) == \A i \in DOMAIN candidates : AsStored(candidates[i])

\* C24: the query-time operations never change a candidate's volume_number,
\* chapter_name, hadith_number, metadata or texts and write nothing to the
\* store; the only keys they add are content_priority and relevance_score.
C24_QueryTimeWritesOnlyTransientKeys ==
  /\ [](/\ AllAsStored(raw_results)
        /\ AllAsStored(filtered_results)
        /\ AllAsStored(chunks)
        /\ AllAsStored(filtered_chunks))
  /\ [][store' = store /\ processed_volumes' = processed_volumes]_vars

\* a request answered from a candidate that carries both transient keys
C24_Witness ==
  /\ qpc = "done"
  /\ response.success
  /\ filtered_chunks # <<>>
  /\ filtered_chunks[1].relevance_score = 10
  /\ filtered_chunks[1].content_priority = 10
  /\ filtered_chunks[1].hadith_number = None

\* C25 as stated: the metadata of a stored passage is written once, when the
\* passage is inserted, and no later operation modifies it.
C25_MetadataIsWrittenOnce ==
  \A i \in DOMAIN ftable : ftable[i].metadata = fwritten[i]

RepairKeys == {"extraction_method", "confidence", "fixed_metadata"}

\* the repair filled a column of committed row i
ColumnFilled(i) ==
  \/ ftable[i].chapter_name # fwritten[i].chapter
  \/ ftable[i].hadith_number # fwritten[i].hadith_number

\* C25 amended: the metadata of a stored passage is the one written at insertion
\* unless the metadata repair filled one of the passage's two reference columns;
\* then the repair has merged its own keys into it (chapter, hadith_number,
\* extraction_method, confidence above 0.2, fixed_metadata = true) and left the
\* other keys as written.
C25_OnlyTheRepairRewritesMetadata ==
  \A i \in DOMAIN ftable :
    IF ColumnFilled(i)
      THEN /\ DOMAIN ftable[i].metadata = DOMAIN fwritten[i] \cup RepairKeys
           /\ ftable[i].metadata.fixed_metadata = TRUE
           /\ ftable[i].metadata.confidence > MinFixConfidence
           /\ \A k \in DOMAIN fwritten[i] \ {"chapter", "hadith_number"} :
                ftable[i].metadata[k] = fwritten[i][k]
      ELSE ftable[i].metadata = fwritten[i]

\* the repair has committed a row whose chapter it filled and whose metadata it
\* rewrote
C25_Witness ==
  /\ fpc = "done"
  /\ \E i \in DOMAIN ftable :
       /\ fwritten[i].chapter = NoRef
       /\ ftable[i].chapter_name = <<4>>
       /\ ftable[i].metadata # fwritten[i]
       /\ ftable[i].metadata.pages_processed = "1-3"

\* C26: a call of process_volume_with_retry sends at most max_retries + 1
\* requests, sends none after the first response with success = true, and
\* returns, whatever the requests' outcomes are.
C26_ReturnsWithinMaxRetriesPlusOneRequests ==
  /\ [](Len(outcomes) <= max_retries + 1)
  /\ [](\A i \in 1..(Len(outcomes) - 1) : outcomes[i] # "success_true")
  /\ [](outcomes # <<>> /\ outcomes[Len(outcomes)] = "success_true"
          => cpc # "loop")
  /\ (cpc = "loop" ~> cpc = "returned")

\* the default max_retries: two failed requests, then success on the third
C26_Witness ==
  /\ cpc = "returned"
  /\ max_retries = 2
  /\ outcomes = <<"timeout", "transport_error", "success_true">>
  /\ cresult = "success"

\* get_processed_volumes: SELECT volume_number, ... FROM bihar_chunks GROUP BY
\* volume_number, the volume numbers of the answer of /volumes
GetProcessedVolumes == { row.volume_number : row \in store }

\* C27 as stated: a volume is reported as processed only if an ingestion run
\* for it completed and wrote its processed_volumes record (looked at between
\* two ingestion requests).
C27_ReportedOnlyIfRecorded ==
  ipc = "idle" =>
    \A v \in GetProcessedVolumes :
      /\ \E r \in processed_volumes : r.volume_number = v
      /\ \E i \in DOMAIN completed : completed[i][2] = v

Ingestions == { i \in DOMAIN wrequests : wrequests[i] = "done" }

\* C28 as stated: one call of process_volume_with_retry causes at most one
\* ingestion of the volume; a request that timed out and its retry never both
\* insert the volume's passages.
C28_AtMostOneIngestionPerCall ==
  /\ Cardinality(Ingestions) <= 1
  /\ \A r1, r2 \in wrows : r1.chunk_index = r2.chunk_index => r1 = r2

CaughtSearchError(entry) == entry.op \in Searches /\ entry.ended = "error_caught"

\* C29 as stated: after a store error caught inside one of the two searches the
\* shared connection is usable: its failed transaction is ended and the next
\* store operation is not rejected because of the earlier error.
C29_ConnectionUsableAfterCaughtSearchError ==
  /\ \A i \in 1..(Len(nlog) - 1) :
       CaughtSearchError(nlog[i]) => nlog[i + 1].ended # "rejected"
  /\ (nlog # <<>> /\ CaughtSearchError(nlog[Len(nlog)])) => nconn # "aborted"

====
